---------------------------- MODULE Spec2Model ----------------------------
(***************************************************************************)
(* State-machine model of the CANOPI optimizer:                            *)
(*   - BundleMethod.solve            (canopi_engine/algorithms/bundle_method.py)      *)
(*   - iterative_transmission_correction / transmission_correction_rtep     *)
(*                                   (canopi_engine/algorithms/transmission_correction.py) *)
(*   - CANOPIOptimizerService        (backend/app/services/canopi/optimizer_service.py) *)
(*   - cancel_optimization           (backend/app/api/v1/optimization.py)   *)
(*   - compute_minimal_cycle_basis   (canopi_engine/algorithms/cycle_basis.py) *)
(*   - OperationalSubproblem.solve   (canopi_engine/algorithms/operational_subproblem.py) *)
(*   - Network                       (canopi_engine/models/network.py)      *)
(*   - CapacityLimits                (canopi_engine/models/capacity_decision.py) *)
(*                                                                         *)
(* Money is counted in units of half a cent so that the relative-gap test  *)
(* against epsilon = 0.01 is exact integer arithmetic.  Python's           *)
(* 0-based scenario and branch indices are 1-based here.                   *)
(***************************************************************************)
EXTENDS Integers, Sequences, FiniteSets, TLC

VARIABLES
    pc,               \* position of the coordinating thread
    simplified,       \* run_optimization(simplified=...)
    progress_sink,    \* TRUE iff a progress_callback was passed
    max_iterations,   \* run_optimization(max_iterations=...) -> BundleMethod.max_iterations
    network,          \* [n, b, capacity_mw]: the loaded Network
    k,                \* BundleMethod.solve: loop index of the last iteration entered
    x_k,              \* BundleMethod.solve: current iterate
    x_star,           \* BundleMethod.solve: incumbent (None until set)
    U_k,              \* BundleMethod.solve: upper bound
    L_k,              \* BundleMethod.solve: lower bound
    theta_k,          \* BundleMethod.solve: objectives of the last iteration
    cutting_planes,   \* BundleMethod.cutting_planes
    contingencies,    \* BundleMethod.contingencies
    iterations,       \* BundleMethod.iterations (history of BundleIteration)
    corr,             \* locals of iterative_transmission_correction
    result,           \* the OptimizationResult returned (None until returned)
    events,           \* what the progress sink has received, in order
    phase_log,        \* the phases announced by the facade, in order
    jobs_db_status,   \* jobs_db[job_id]["status"] of the API
    call,             \* frame of a function called on its own: its arguments
                      \* and, once it has returned, its value (None otherwise)
    capacity_limits   \* CANOPIOptimizerService.capacity_limits

vars == <<pc, simplified, progress_sink, max_iterations, network, k, x_k, x_star,
          U_k, L_k, theta_k, cutting_planes, contingencies, iterations, corr,
          result, events, phase_log, jobs_db_status, call, capacity_limits>>

bundle_vars == <<k, x_k, x_star, U_k, L_k, theta_k, cutting_planes, contingencies,
                 iterations>>

input_vars == <<simplified, progress_sink, max_iterations, network>>

\* Python's None, for variables that otherwise hold a record
None == [none |-> TRUE]

-----------------------------------------------------------------------------
(* Bounds of the model *)

MaxBundleIterations == 2
MaxCorrectorCap == 3

-----------------------------------------------------------------------------
(* Arithmetic helpers *)

Max(a, b) == IF a >= b THEN a ELSE b
Min(a, b) == IF a <= b THEN a ELSE b
Abs(a) == IF a < 0 THEN -a ELSE a

RECURSIVE SumSeq(_)
SumSeq(s) == IF s = <<>> THEN 0 ELSE Head(s) + SumSeq(Tail(s))

RECURSIVE MaxSeq(_)

\* Python max(list) of a non-empty list
MaxSeq(s) == IF Len(s) = 1 THEN s[1] ELSE Max(Head(s), MaxSeq(Tail(s)))

Dot(c, x) == SumSeq([i \in 1..Len(x) |-> c[i] * x[i]])

\* money units per dollar: one unit is half a cent
MoneyScale == 2 * 100


-----------------------------------------------------------------------------
(* Data: network, operational parameters, investment costs *)

\* Networks the service may have loaded.  b = n - 1 for the first two; the
\* third is meshed (b = n).
Networks ==
    { [n |-> 2, b |-> 1, capacity_mw |-> <<2>>],
      [n |-> 3, b |-> 2, capacity_mw |-> <<1, 2>>],
      [n |-> 3, b |-> 3, capacity_mw |-> <<2, 2, 2>>] }

\* ScenarioData.c_vio in dollars
CVio == 2000

\* The scenario list handed to BundleMethod (the fields the bundle reads)
scenarios == << [c_vio |-> CVio], [c_vio |-> CVio] >>
NumScenarios == Len(scenarios)
Scenarios == 1..NumScenarios

\* OperationalParameters.w_g, w_es_p: one generator, one storage device
w_g == <<5>>
w_es_p == <<1>>

\* InvestmentCosts coefficients (units per MW)
c_g == <<2>>
c_es_p == <<3>>
c_es_e == <<1>>
c_br(net) == [i \in 1..net.b |-> 4]
c_em == [w \in Scenarios |-> 1]

\* CapacityDecision.zeros
Zeros(n_generators, n_storage, n_branches, n_scenarios) ==
    [ x_g    |-> [i \in 1..n_generators |-> 0],
      x_es_p |-> [i \in 1..n_storage |-> 0],
      x_es_e |-> [i \in 1..n_storage |-> 0],
      x_br   |-> [i \in 1..n_branches |-> 0],
      x_em   |-> [i \in 1..n_scenarios |-> 0] ]

\* InvestmentCosts.calculate_cost
calculate_cost(net, x) ==
    Dot(c_g, x.x_g) + Dot(c_es_p, x.x_es_p) + Dot(c_es_e, x.x_es_e)
    + Dot(c_br(net), x.x_br) + Dot(c_em, x.x_em)

\* The matrix products A_reduced.T @ B @ A_reduced and B @ A_reduced of
\* _compute_power_transfer_matrices are defined only when b = n - 1
\* (A_reduced is (n-1) x b, B is b x b); otherwise numpy raises ValueError,
\* which the except clause (LinAlgError only) does not catch.
ShapesConform(net) == net.b = net.n - 1

-----------------------------------------------------------------------------
(* BundleMethod *)

\* np.inf, the initial upper bound
Infinity == 1000000000

\* 1e12, the objective recorded for an infeasible subproblem (stand-in that
\* exceeds every other objective of the model)
InfeasibleCost == 100000

\* the factor of the penalty estimate sigma
PenaltyFactor == 10

\* epsilon = 0.01 and alpha = 0.3 as passed by the facade
EpsilonNum == 1
EpsilonDen == 100
AlphaNum == 3
AlphaDen == 10

\* Objective values an optimal operational LP may return (units of half a
\* cent): minus half a cent, 0, half a cent.  The LP weighs
\* generation by ScenarioData.c_g, whose sign no code constrains, so its
\* optimum may be negative.
ThetaValues == {-1, 0, 1}

\* What OperationalSubproblem.solve returns for one scenario: the solver's
\* status and objective value
SubproblemResults ==
    [status : {"optimal"}, objective_value : ThetaValues]
    \cup {[status |-> "infeasible", objective_value |-> 0]}

\* an oracle that reports the outage of a branch against itself
identify_self_outage_contingencies(res, x, omega) == { <<1, omega, omega>> }

\* _identify_violated_contingencies: the oracle (stub: returns the empty set)
identify_violated_contingencies(res, x, omega) == {}

\* set.update of line 248
UpdateContingencies(old, new_violations) == old \cup new_violations

\* the zero subgradient built at lines 237-243 and 257
ZeroGradient(x) ==
    [i \in 1..(Len(x.x_g) + Len(x.x_es_p) + Len(x.x_es_e) + Len(x.x_br) + Len(x.x_em)) |-> 0]

\* list.insert(0, ...) in place of list.append
PrependCut(cuts, theta, g) == << <<theta, g>> >> \o cuts

\* list.append of line 136
AppendCut(cuts, theta, g) == Append(cuts, <<theta, g>>)

\* _solve_master_problem (stub: returns 0.0)
solve_master_problem(x_current) == 0

\* _compute_analytic_center (stub: returns the zero decision)
compute_analytic_center(net, theta_lev) ==
    Zeros(Len(w_g), Len(w_es_p), net.b, NumScenarios)

\* an update that keeps the latest value instead of the minimum
UpdateUpperBoundLatest(U, f) == f

\* line 141: U_k = min(U_k, f_k)
UpdateUpperBound(U, f) == Min(U, f)

\* the gap over max(|U_k|, 1) (one dollar is MoneyScale units)
RelativeGapAbsolute(U, L) == <<U - L, Max(Abs(U), MoneyScale)>>

\* line 151: gap = (U_k - L_k) / U_k if U_k > 0 else 0.0, as a fraction <<num, den>>
RelativeGap(U, L) == IF U > 0 THEN <<U - L, U>> ELSE <<0, 1>>

\* line 175: gap < self.epsilon  (den > 0)
GapBelowEpsilon(gap) == gap[1] * EpsilonDen < EpsilonNum * gap[2]

\* line 181: theta_lev_k = L_k + alpha * (U_k - L_k), as a fraction
LevelValue(U, L) == <<AlphaDen * L + AlphaNum * (U - L), AlphaDen>>

\* a callback that reports the zero-based loop index
bundle_progress_callback_zero_based(iteration, iter_result, max_it) ==
    [ iteration   |-> iteration - 1,
      progress    |-> <<Min(iteration - 1, max_it), max_it>>,
      upper_bound |-> iter_result.f_k,
      lower_bound |-> iter_result.L_k,
      gap         |-> iter_result.gap ]

\* bundle_progress_callback of the facade (lines 309-319): the event handed
\* to the sink; progress = min(iteration / max_iterations, 1.0) as a fraction
bundle_progress_callback(iteration, iter_result, max_it) ==
    [ iteration   |-> iteration,
      progress    |-> <<Min(iteration, max_it), max_it>>,
      upper_bound |-> iter_result.f_k,
      lower_bound |-> iter_result.L_k,
      gap         |-> iter_result.gap ]

-----------------------------------------------------------------------------
(* Transmission correction *)

\* post-contingency rating multiplier eta_c (default of transmission_correction_rtep)
EtaC == 1

\* default transmission cost c_br = 1e6 per MW when c_br is None
DefaultCBr == 1000000

\* max_iterations = 5 and tolerance = 1e-3 as passed by the facade
FacadeCorrectorIterations == 5
FacadeToleranceNum == 1
FacadeToleranceDen == 1000

\* Network.identify_non_islanding_branches (stub: every branch)
identify_non_islanding_branches(net) == 1..net.b

\* the outaged branches j visited for monitored branch i (line 83), in loop order
OutagedBranches(net, i) ==
    SelectSeq([j \in 1..net.b |-> j],
              LAMBDA j : i # j /\ j \in identify_non_islanding_branches(net))

\* lines 78-79: base-case violations of branch i over all (omega, t);
\* flows[s][i] is p_br_i = PTDF[i, :] @ p_ni[t, 1:] of the s-th (omega, t)
DeltaBase(net, flows, i) ==
    [s \in 1..Len(flows) |-> Max(Abs(flows[s][i]) - net.capacity_mw[i], 0)]

\* lines 82-90: contingency violations of branch i over all (omega, t, j)
DeltaCont(net, flows, lodf, i, eta_c) ==
    LET js == OutagedBranches(net, i)
        nj == Len(js)
    IN  [q \in 1..(Len(flows) * nj) |->
            LET s == ((q - 1) \div nj) + 1
                j == js[((q - 1) % nj) + 1]
                p_brc_ij == flows[s][i] + lodf[i][j] * flows[s][j]
            IN  Max(Abs(p_brc_ij) - eta_c * net.capacity_mw[i], 0) \div eta_c]

\* index of a largest element of a non-empty sequence
RECURSIVE ArgMax(_)
ArgMax(s) ==
    IF Len(s) = 1 THEN 1
    ELSE LET m == ArgMax(SubSeq(s, 1, Len(s) - 1))
         IN  IF s[Len(s)] > s[m] THEN Len(s) ELSE m

RemoveAt(s, i) == SubSeq(s, 1, i - 1) \o SubSeq(s, i + 1, Len(s))

\* sorted(delta_cont, reverse=True)
RECURSIVE SortedDescending(_)
SortedDescending(s) ==
    IF s = <<>> THEN <<>>
    ELSE LET m == ArgMax(s) IN <<s[m]>> \o SortedDescending(RemoveAt(s, m))

\* int(np.ceil(c_br[i] / (eta_c * c_vio))) for positive arguments
CostRatioCeil(c_br_i, eta_c, c_vio) ==
    (c_br_i + (eta_c * c_vio) - 1) \div (eta_c * c_vio)

\* the optimum read at position r_i_int counted from 1
UnconstrainedOptimumOneBased(delta_cont, c_br_i, eta_c, c_vio) ==
    LET r_i_int == CostRatioCeil(c_br_i, eta_c, c_vio)
    IN  IF r_i_int <= Len(delta_cont)
        THEN SortedDescending(delta_cont)[r_i_int]
        ELSE 0

\* lines 99-110: the unconstrained optimum; Python's list index r_i_int is
\* position r_i_int + 1 of a 1-based sequence
UnconstrainedOptimum(delta_cont, c_br_i, eta_c, c_vio) ==
    LET r_i_int == CostRatioCeil(c_br_i, eta_c, c_vio)
        delta_cont_sorted == SortedDescending(delta_cont)
    IN  IF Len(delta_cont) > 0
        THEN IF r_i_int < Len(delta_cont)   \* = len(delta_cont_sorted)
             THEN delta_cont_sorted[r_i_int + 1]
             ELSE 0
        ELSE 0

\* np.clip
Clip(v, lo, hi) == Min(Max(v, lo), hi)

\* transmission_correction_rtep: the updated capacity x_br_tilde
transmission_correction_rtep(net, flows, lodf, eta_c, c_br_vec, c_vio) ==
    [i \in 1..net.b |->
        LET delta_base == DeltaBase(net, flows, i)
            delta_cont == DeltaCont(net, flows, lodf, i, eta_c)
            x_br_lb_i  == IF delta_base # <<>> THEN MaxSeq(delta_base) ELSE 0
            x_opt_i    == UnconstrainedOptimum(delta_cont, c_br_vec[i], eta_c, c_vio)
            x_br_max_i == net.capacity_mw[i] * 2
        IN  Clip(Max(x_br_lb_i, x_opt_i), 0, x_br_max_i)]

SumSquares(v) == SumSeq([i \in 1..Len(v) |-> v[i] * v[i]])

\* sqrt(D) / (1 + sqrt(X)) < p / q, decided in integers (p, q > 0)
NormRatioBelow(D, X, p, q) ==
    IF q * q * D < p * p THEN TRUE
    ELSE LET lhs == q * q * D + p * p - p * p * X
         IN  IF lhs < 0 THEN TRUE
             ELSE IF lhs >= 2 * p * q * D THEN FALSE
             ELSE lhs * lhs < 4 * p * p * q * q * D

\* lines 218, 223: diff = ||x_br_tilde - x_br_hat|| / (1 + ||x_br_hat||) < tolerance
DiffBelowTolerance(x_br_tilde, x_br_hat, tolerance) ==
    NormRatioBelow(SumSquares([i \in 1..Len(x_br_hat) |-> x_br_tilde[i] - x_br_hat[i]]),
                   SumSquares(x_br_hat), tolerance[1], tolerance[2])

\* the flows PTDF @ p_ni of the facade's placeholder injections
\* p_ni_star = {0: zeros((time_periods, n))}: zero in every period
ZeroFlows(net, periods) == [s \in 1..periods |-> [i \in 1..net.b |-> 0]]
\* LODF[i, j] multiplies the zero flow p_br_j (line 86): the zero matrix
\* stands for whatever finite matrix was computed
ZeroLodf(net) == [i \in 1..net.b |-> [j \in 1..net.b |-> 0]]

\* locals of iterative_transmission_correction at its entry
CorrectorEntry(x_br_initial, max_it, tolerance) ==
    [ max_iterations |-> max_it,
      tolerance      |-> tolerance,
      x_br_hat       |-> x_br_initial,
      x_br_tilde     |-> <<>>,
      iteration      |-> 0,
      ret            |-> None ]

CorrectorIdle ==
    [ max_iterations |-> 0, tolerance |-> <<1, 1>>, x_br_hat |-> <<>>,
      x_br_tilde |-> <<>>, iteration |-> 0, ret |-> None ]

\* one pass of the loop body, lines 204-229
CorrectorLoopBody(c, net, flows, lodf) ==
    LET x_br_tilde == transmission_correction_rtep(
                          net, flows, lodf, EtaC,
                          [i \in 1..net.b |-> DefaultCBr], CVio)
    IN  IF DiffBelowTolerance(x_br_tilde, c.x_br_hat, c.tolerance)
        THEN [c EXCEPT !.x_br_tilde = x_br_tilde,
                       !.iteration = c.iteration + 1,
                       !.ret = [x_br |-> x_br_tilde, converged |-> TRUE]]
        ELSE [c EXCEPT !.x_br_tilde = x_br_tilde,
                       !.iteration = c.iteration + 1,
                       !.x_br_hat = x_br_tilde]

\* line 234: return x_br_hat, False
CorrectorExhaustedReturn(c) ==
    [c EXCEPT !.ret = [x_br |-> c.x_br_hat, converged |-> FALSE]]

-----------------------------------------------------------------------------
(* OptimizationResult and the facade *)

\* CANOPIOptimizerService.time_periods
TimePeriods == 24

\* scenario demand of the loaded data, and the simplified path's total cost
\* (lines 240-264): investment cost plus 40 dollars per MWh of demand
p_d == <<1, 2>>
total_demand == SumSeq(p_d)
SimplifiedInvestmentCost == 7 * MoneyScale
SimplifiedTotalCost == SimplifiedInvestmentCost + total_demand * 40 * MoneyScale

\* create_capacity_limits of the loader: generation and transmission may
\* double, no storage limits, and the emissions limit (a fraction
\* <<numerator, denominator>>)
XEmMaxLoaded == 1000
create_capacity_limits(net) ==
    [ x_g_max    |-> [g \in 1..Len(w_g) |-> 2 * w_g[g]],
      x_es_p_max |-> << >>,
      x_es_e_max |-> << >>,
      x_br_max   |-> [i \in 1..net.b |-> 2 * net.capacity_mw[i]],
      x_em_max   |-> <<XEmMaxLoaded, 1>> ]

\* OptimizationRequest.carbon_target (0 <= carbon_target <= 1) as fractions:
\* 0 and the default 0.8
CarbonTargets == { <<0, 1>>, <<4, 5>> }

\* _apply_request_parameters: x_em_max is multiplied by carbon_target
apply_request_parameters(limits, carbon_target) ==
    [limits EXCEPT !.x_em_max = <<limits.x_em_max[1] * carbon_target[1],
                                  limits.x_em_max[2] * carbon_target[2]>>]

\* lines 244-245: expansion_factor as a fraction
expansion_factor ==
    LET total_existing_gen == SumSeq(w_g)
        raw == <<115 * total_demand - 100 * total_existing_gen, 100 * total_existing_gen>>
        floored == IF raw[1] * 10 >= raw[2] THEN raw ELSE <<1, 10>>
    IN  IF floored[1] * 2 <= floored[2] THEN floored ELSE <<1, 2>>

\* lines 247-259: the capacity decision of the simplified path; every
\* component is a fraction <<numerator, denominator>>
SimplifiedCapacityDecision(net) ==
    [ x_g    |-> [g \in 1..Len(w_g) |-> <<w_g[g] * expansion_factor[1], expansion_factor[2]>>],
      x_es_p |-> [s \in 1..Len(w_es_p) |-> <<0, 1>>],
      x_es_e |-> [s \in 1..Len(w_es_p) |-> <<0, 1>>],
      x_br   |-> [i \in 1..net.b |-> <<net.capacity_mw[i], 10>>],
      x_em   |-> << <<total_demand, 2>> >> ]

\* OptimizationResult.__init__ (status defaults to "completed")
OptimizationResult(total_cost, capacity_decision, objective_value, its, convergence_gap, status) ==
    [ total_cost        |-> total_cost,
      capacity_decision |-> capacity_decision,
      objective_value   |-> objective_value,
      iterations        |-> its,
      convergence_gap   |-> convergence_gap,
      status            |-> status ]

\* a facade that reports the status "optimal"
ResultStatusOptimal == "optimal"

\* the status both paths pass to OptimizationResult (lines 286, 378)
ResultStatus == "completed"

\* lines 371-379: the result of the full path
FullResult(x, f_star, its) ==
    OptimizationResult(
        f_star, x, f_star, Len(its),
        IF its # <<>> THEN its[Len(its)].gap ELSE <<0, 1>>,
        ResultStatus)

\* lines 267-277: the five progress events of the simplified path
SimplifiedEvents ==
    [i \in 1..5 |->
        [ iteration   |-> i,
          progress    |-> <<i, 5>>,
          upper_bound |-> <<SimplifiedTotalCost * (110 - 2 * i), 100>>,
          lower_bound |-> <<SimplifiedTotalCost * (90 + 2 * i), 100>>,
          gap         |-> <<20 - 3 * i, 100>> ]]

\* lines 279-287: the result of the simplified path
SimplifiedResult(capacity_decision) ==
    OptimizationResult(
        SimplifiedTotalCost, capacity_decision, SimplifiedTotalCost, 5,
        <<5, 100>>, ResultStatus)

-----------------------------------------------------------------------------
(* Initial state: the service has its data, the job is queued *)

BundleInit ==
    /\ k = 0
    /\ x_k = None
    /\ x_star = None
    /\ U_k = Infinity
    /\ L_k = 0
    /\ theta_k = <<>>
    /\ cutting_planes = [w \in Scenarios |-> <<>>]
    /\ contingencies = [w \in Scenarios |-> {}]
    /\ iterations = <<>>

Init ==
    /\ pc = "idle"
    /\ simplified \in BOOLEAN
    /\ progress_sink \in BOOLEAN
    /\ max_iterations \in 0..MaxBundleIterations
    /\ network \in Networks
    /\ BundleInit
    /\ corr = CorrectorIdle
    /\ result = None
    /\ events = <<>>
    /\ phase_log = <<>>
    /\ jobs_db_status = "queued"
    /\ call = None
    /\ capacity_limits = create_capacity_limits(network)

-----------------------------------------------------------------------------
(* Actions of a run through the facade *)

\* _run_simplified_optimization, lines 226-294
RunSimplified ==
    /\ pc = "idle"
    /\ simplified
    /\ events' = IF progress_sink THEN events \o SimplifiedEvents ELSE events
    /\ result' = SimplifiedResult(SimplifiedCapacityDecision(network))
    /\ phase_log' = Append(phase_log, "simplified")
    /\ pc' = "returned"
    /\ UNCHANGED <<input_vars, bundle_vars, corr, jobs_db_status>>
    /\ \E carbon_target \in CarbonTargets :
          capacity_limits' = apply_request_parameters(capacity_limits, carbon_target)
    /\ UNCHANGED call

\* _run_full_optimization up to the entry of the bundle loop: lines 306-337,
\* BundleMethod.__init__ and BundleMethod.solve lines 105-126
StartFull ==
    /\ pc = "idle"
    /\ ~simplified
    /\ phase_log' = Append(phase_log, "bundle")
    /\ cutting_planes' = [w \in Scenarios |-> <<>>]
    /\ contingencies' = [w \in Scenarios |-> {}]
    /\ iterations' = <<>>
    /\ L_k' = 0
    /\ U_k' = Infinity
    /\ x_k' = Zeros(Len(w_g), Len(w_es_p), network.b, NumScenarios)
    /\ x_star' = None
    /\ k' = 0
    /\ theta_k' = <<>>
    /\ pc' = IF max_iterations >= 1 THEN "bundle" ELSE "bundle_exit"
    /\ UNCHANGED <<input_vars, corr, result, events, jobs_db_status>>
    /\ \E carbon_target \in CarbonTargets :
          capacity_limits' = apply_request_parameters(capacity_limits, carbon_target)
    /\ UNCHANGED call

\* One pass of the loop body of BundleMethod.solve (lines 127-185) with
\* _solve_subproblems (lines 196-260); res[w] is what the LP solver returns
\* for scenario w.
BundleIterationBody(res) ==
    LET kk == k + 1
        new_violations == [w \in Scenarios |->
            IF res[w].status = "optimal"
            THEN identify_violated_contingencies(res[w], x_k, w)
            ELSE {}]
        theta == [w \in Scenarios |->
            IF res[w].status = "optimal" THEN res[w].objective_value
            ELSE InfeasibleCost]
        sigma == [w \in Scenarios |->
            IF res[w].status = "optimal"
            THEN Cardinality(new_violations[w]) * scenarios[w].c_vio * MoneyScale * PenaltyFactor
            ELSE 0]
        g == ZeroGradient(x_k)
        f_k == calculate_cost(network, x_k)
               + SumSeq([w \in Scenarios |-> theta[w] + sigma[w]])
        U == UpdateUpperBound(U_k, f_k)
        L == solve_master_problem(x_k)
        gap == RelativeGap(U, L)
        converged == GapBelowEpsilon(gap)
        iter_result == [ k |-> kk, x_k |-> x_k, f_k |-> f_k, L_k |-> L, gap |-> gap,
                         theta_lev_k |-> IF converged THEN <<0, 1>>
                                         ELSE LevelValue(U, L) ]
    IN  /\ k' = kk
        /\ theta_k' = theta
        /\ contingencies' = [w \in Scenarios |->
               IF res[w].status = "optimal"
               THEN UpdateContingencies(contingencies[w], new_violations[w])
               ELSE contingencies[w]]
        /\ cutting_planes' = [w \in Scenarios |->
               AppendCut(cutting_planes[w], theta[w], g)]
        /\ U_k' = U
        /\ x_star' = IF U = f_k THEN x_k ELSE x_star
        /\ L_k' = L
        /\ iterations' = Append(iterations, iter_result)
        /\ events' = IF progress_sink
                     THEN Append(events,
                                 bundle_progress_callback(kk, iter_result, max_iterations))
                     ELSE events
        /\ x_k' = IF converged THEN x_k
                  ELSE compute_analytic_center(network, LevelValue(U, L))
        /\ pc' = IF converged \/ kk = max_iterations THEN "bundle_exit" ELSE "bundle"

BundleIteration ==
    /\ pc = "bundle"
    /\ k < max_iterations
    /\ ShapesConform(network)
    /\ \E res \in [Scenarios -> SubproblemResults] : BundleIterationBody(res)
    /\ UNCHANGED <<input_vars, corr, result, phase_log, jobs_db_status>>
    /\ UNCHANGED <<call, capacity_limits>>

\* OperationalSubproblem.__init__ raises ValueError out of the first
\* subproblem of the iteration when the matrix shapes do not conform; the
\* exception leaves solve, _run_full_optimization and run_optimization.
BundleRaise ==
    /\ pc = "bundle"
    /\ k < max_iterations
    /\ ~ShapesConform(network)
    /\ k' = k + 1
    /\ pc' = "raised"
    /\ UNCHANGED <<input_vars, x_k, x_star, U_k, L_k, theta_k, cutting_planes,
                   contingencies, iterations, corr, result, events, phase_log,
                   jobs_db_status>>
    /\ UNCHANGED <<call, capacity_limits>>

\* lines 338-356 (and 371-381 when x_star is None): solve has returned
\* (x_star, U_k)
AfterBundle ==
    /\ pc = "bundle_exit"
    /\ IF x_star # None
       THEN /\ phase_log' = Append(phase_log, "corrector")
            /\ corr' = CorrectorEntry(x_star.x_br, FacadeCorrectorIterations,
                                      <<FacadeToleranceNum, FacadeToleranceDen>>)
            /\ pc' = "corrector"
            /\ result' = result
       ELSE /\ result' = FullResult(x_star, U_k, iterations)
            /\ pc' = "returned"
            /\ UNCHANGED <<phase_log, corr>>
    /\ UNCHANGED <<input_vars, bundle_vars, events, jobs_db_status>>
    /\ UNCHANGED <<call, capacity_limits>>

\* one iteration of iterative_transmission_correction as the facade calls it:
\* the injections are the zero placeholder, so every flow is zero
FacadeCorrectorIteration ==
    /\ pc = "corrector"
    /\ corr.ret = None
    /\ corr.iteration < corr.max_iterations
    /\ corr' = CorrectorLoopBody(corr, network, ZeroFlows(network, TimePeriods),
                                 ZeroLodf(network))
    /\ pc' = IF corr'.ret # None THEN "corr_returned" ELSE "corrector"
    /\ UNCHANGED <<input_vars, bundle_vars, result, events, phase_log,
                   jobs_db_status>>
    /\ UNCHANGED <<call, capacity_limits>>

\* lines 368-381: x_star.x_br = x_br_corrected, build the result, return
FinishFull ==
    /\ pc = "corr_returned"
    /\ x_star # None
    /\ x_star' = [x_star EXCEPT !.x_br = corr.ret.x_br]
    /\ result' = FullResult(x_star', U_k, iterations)
    /\ pc' = "returned"
    /\ UNCHANGED <<input_vars, k, x_k, U_k, L_k, theta_k, cutting_planes,
                   contingencies, iterations, corr, events, phase_log,
                   jobs_db_status>>
    /\ UNCHANGED <<call, capacity_limits>>

\* cancel_optimization (API): accepted unless the job is completed or failed;
\* it writes jobs_db only (the run of the worker is not revoked).
CancelOptimization ==
    /\ jobs_db_status \notin {"completed", "failed"}
    /\ jobs_db_status' = "cancelled"
    /\ UNCHANGED <<pc, input_vars, bundle_vars, corr, result, events, phase_log>>
    /\ UNCHANGED <<call, capacity_limits>>

Next ==
    \/ RunSimplified
    \/ StartFull
    \/ BundleIteration
    \/ BundleRaise
    \/ AfterBundle
    \/ FacadeCorrectorIteration
    \/ FinishFull
    \/ CancelOptimization

Spec == Init /\ [][Next]_vars

-----------------------------------------------------------------------------
(* iterative_transmission_correction called on its own *)

\* Inputs of a direct call.  The flows PTDF(x_br_hat) @ p_ni and the matrix
\* LODF(x_br_hat) are recomputed from x_br_hat in every sub-solve (line 55);
\* each sub-solve draws them from these sets.
FlowValues == {-3, 0, 2}
LodfValues == {0, 1}
InitialAdditions == {0, 1}
Tolerances == { <<1, 1000>>, <<1, 2>> }

\* number of (omega, t) pairs of p_ni_star
InjectionPeriods == Len(p_d)

InitCorr ==
    /\ pc = "corrector"
    /\ network \in Networks
    /\ \E x_br_initial \in [1..network.b -> InitialAdditions],
          max_it \in 0..MaxCorrectorCap,
          tolerance \in Tolerances :
          corr = CorrectorEntry(x_br_initial, max_it, tolerance)
    /\ simplified = FALSE
    /\ progress_sink = FALSE
    /\ max_iterations = 0
    /\ BundleInit
    /\ result = None
    /\ events = <<>>
    /\ phase_log = <<>>
    /\ jobs_db_status = "queued"
    /\ call = None
    /\ capacity_limits = create_capacity_limits(network)

\* one pass of the loop, lines 204-229
CorrectorIteration ==
    /\ pc = "corrector"
    /\ corr.ret = None
    /\ corr.iteration < corr.max_iterations
    /\ ShapesConform(network)
    /\ \E flows \in [1..InjectionPeriods -> [1..network.b -> FlowValues]],
          lodf \in [1..network.b -> [1..network.b -> LodfValues]] :
          corr' = CorrectorLoopBody(corr, network, flows, lodf)
    /\ pc' = IF corr'.ret # None THEN "corr_returned" ELSE "corrector"
    /\ UNCHANGED <<input_vars, bundle_vars, result, events, phase_log, jobs_db_status>>
    /\ UNCHANGED <<call, capacity_limits>>

\* compute_power_transfer_matrices raises ValueError when the matrix shapes
\* do not conform
CorrectorRaise ==
    /\ pc = "corrector"
    /\ corr.ret = None
    /\ corr.iteration < corr.max_iterations
    /\ ~ShapesConform(network)
    /\ pc' = "raised"
    /\ UNCHANGED <<input_vars, bundle_vars, corr, result, events, phase_log,
                   jobs_db_status>>
    /\ UNCHANGED <<call, capacity_limits>>

\* the loop is exhausted, lines 231-234
CorrectorExhausted ==
    /\ pc = "corrector"
    /\ corr.ret = None
    /\ corr.iteration = corr.max_iterations
    /\ corr' = CorrectorExhaustedReturn(corr)
    /\ pc' = "corr_returned"
    /\ UNCHANGED <<input_vars, bundle_vars, result, events, phase_log, jobs_db_status>>
    /\ UNCHANGED <<call, capacity_limits>>

NextCorr ==
    \/ CorrectorIteration
    \/ CorrectorRaise
    \/ CorrectorExhausted

SpecCorr == InitCorr /\ [][NextCorr]_vars

-----------------------------------------------------------------------------
(* Properties of BundleMethod.solve, stated for Spec *)

\* the program counters of a full run after BundleMethod.solve has returned
AfterSolve == {"bundle_exit", "corrector", "corr_returned", "returned"}

\* C1: over the bundle iterations the upper bound U_k never increases, the
\* lower bound L_k never decreases, and U_k - L_k >= 0 after every iteration,
\* whatever objective values the subproblems return.
C1_BoundsMonotone ==
    [][ /\ U_k' <= U_k
        /\ L_k' >= L_k
        /\ U_k' - L_k' >= 0 ]_vars

C3_CutsAppendOnly ==
    [][ \A w \in Scenarios :
          LET old == cutting_planes[w]
              new == cutting_planes'[w]
          IN  /\ Len(new) >= Len(old)
              /\ SubSeq(new, 1, Len(old)) = old
              /\ Len(new) > Len(old) =>
                    /\ Len(new) = Len(old) + 1
                    /\ Len(new) = Len(iterations')
                    /\ new[Len(new)][1] = theta_k'[w] ]_vars

\* C3 case: a scenario holds two cuts with different values, in iteration order
C3_Witness ==
    /\ Len(iterations) = 2
    /\ \E w \in Scenarios :
          /\ Len(cutting_planes[w]) = 2
          /\ cutting_planes[w][1][1] = 1
          /\ cutting_planes[w][2][1] = 0

\* C4 (as the code computes the gap): with gap_k = (U_k - L_k) / U_k when
\* U_k > 0 and gap_k = 0 otherwise, the loop goes on to a further iteration
\* only after an iteration with gap_k >= epsilon, and leaves before the cap
\* max_iterations only after an iteration with gap_k < epsilon.
C4_TerminatesAtCodeGap ==
    LET below == IF U_k > 0
                 THEN (U_k - L_k) * EpsilonDen < EpsilonNum * U_k
                 ELSE TRUE
    IN  /\ (pc = "bundle" /\ k >= 1) => (k < max_iterations /\ ~below)
        /\ (pc \in AfterSolve /\ k >= 1 /\ k < max_iterations) => below

\* C4 case: the loop was left at iteration 1, before the cap, with U_1 = 0
C4_Witness ==
    /\ pc = "bundle_exit"
    /\ k = 1
    /\ max_iterations = 2
    /\ U_k = 0

\* C4 as stated, with the gap (U_k - L_k) / max(|U_k|, 1)
C4_TerminatesAtAbsoluteGap ==
    LET below == (U_k - L_k) * EpsilonDen < EpsilonNum * Max(Abs(U_k), MoneyScale)
    IN  /\ (pc = "bundle" /\ k >= 1) => (k < max_iterations /\ ~below)
        /\ (pc \in AfterSolve /\ k >= 1 /\ k < max_iterations) => below

-----------------------------------------------------------------------------
(* Properties of the facade and of the corrector *)

\* C5: a full solve that has returned ran the phases bundle pass,
\* transmission corrector, polishing bundle pass, in this order.
C5_PhaseOrder ==
    (pc = "returned" /\ ~simplified) =>
        phase_log = <<"bundle", "corrector", "polish">>

\* what a step of the corrector may do: every sub-solve happens below the
\* cap max_iterations; a sub-solve whose relative change
\* ||x_br_tilde - x_br_hat|| / (1 + ||x_br_hat||) is below the tolerance
\* returns (x_br_tilde, True) at once and any other sub-solve does not
\* return; a return without a sub-solve happens only at the cap and is
\* (x_br_hat, False); nothing changes after the return.
CorrectorStepContract ==
    /\ (corr.ret = None /\ corr'.iteration # corr.iteration) =>
          /\ corr.iteration < corr.max_iterations
          /\ corr'.iteration = corr.iteration + 1
          /\ IF DiffBelowTolerance(corr'.x_br_tilde, corr.x_br_hat, corr.tolerance)
             THEN corr'.ret = [x_br |-> corr'.x_br_tilde, converged |-> TRUE]
             ELSE corr'.ret = None
    /\ (corr.ret = None /\ corr'.ret # None /\ corr'.iteration = corr.iteration) =>
          /\ corr.iteration = corr.max_iterations
          /\ corr'.ret = [x_br |-> corr.x_br_hat, converged |-> FALSE]
    /\ corr.ret # None => corr' = corr

\* the steps of a call that returns obey the contract
CorrectorReturnsWithinCap == [][CorrectorStepContract]_vars

\* C6 (under SpecCorr): iterative_transmission_correction always returns,
\* after at most max_iterations sub-solves, with converged = True exactly
\* when it stopped at the first sub-solve whose relative change is below the
\* tolerance and converged = False after the cap: every step obeys the
\* contract and no call is left by an exception.
C6_AlwaysReturns ==
    [][CorrectorStepContract /\ pc' # "raised"]_vars

C9_CancelStopsSolve ==
    [][ /\ (jobs_db_status = "cancelled" /\ pc = "bundle") =>
              Len(iterations') = Len(iterations)
        /\ (jobs_db_status = "cancelled" /\ pc # "idle"
              /\ result = None /\ result' # None) =>
              result'.status = "cancelled" ]_vars

-----------------------------------------------------------------------------
(* transmission_correction_rtep called on its own *)

\* everything outside the frame of the call keeps its initial value
NoRun ==
    /\ simplified = FALSE
    /\ progress_sink = FALSE
    /\ max_iterations = 0
    /\ BundleInit
    /\ corr = CorrectorIdle
    /\ result = None
    /\ events = <<>>
    /\ phase_log = <<>>
    /\ jobs_db_status = "queued"
    /\ capacity_limits = create_capacity_limits(network)

run_vars ==
    <<input_vars, bundle_vars, corr, result, events, phase_log, jobs_db_status,
      capacity_limits>>

\* Arguments of a direct call: eta_c, c_br (the same for every branch) and
\* c_vio; the flows PTDF @ p_ni[t, 1:] of two (omega, t) pairs and LODF
RtepEtaC == {1, 2}
RtepCBr == {1500, 2000, 3000}
RtepFlowValues == {-4, 0, 2, 6}
RtepPeriods == Len(p_d)

InitRtep ==
    /\ pc = "call"
    /\ network \in Networks
    /\ \E eta_c \in RtepEtaC, c \in RtepCBr :
          \E flows \in IF ShapesConform(network)
                       THEN [1..RtepPeriods -> [1..network.b -> RtepFlowValues]]
                       ELSE { <<>> },
             lodf \in IF ShapesConform(network)
                      THEN [1..network.b -> [1..network.b -> LodfValues]]
                      ELSE { <<>> } :
             call = [ fn    |-> "transmission_correction_rtep",
                      flows |-> flows,
                      lodf  |-> lodf,
                      eta_c |-> eta_c,
                      c_br  |-> [i \in 1..network.b |-> c],
                      c_vio |-> CVio,
                      ret   |-> None ]
    /\ NoRun

\* lines 48-120: the call returns x_br_tilde
RtepReturn ==
    /\ pc = "call"
    /\ ShapesConform(network)
    /\ call' = [call EXCEPT !.ret = transmission_correction_rtep(
                    network, call.flows, call.lodf, call.eta_c, call.c_br, call.c_vio)]
    /\ pc' = "call_returned"
    /\ UNCHANGED run_vars

\* line 55: compute_power_transfer_matrices raises ValueError when the matrix
\* shapes do not conform
RtepRaise ==
    /\ pc = "call"
    /\ ~ShapesConform(network)
    /\ pc' = "raised"
    /\ UNCHANGED <<run_vars, call>>

NextRtep ==
    \/ RtepReturn
    \/ RtepRaise

SpecRtep == InitRtep /\ [][NextRtep]_vars

\* the r-th largest element of s counted from 1, 0 when s has fewer than r
RthLargest(s, r) == IF r <= Len(s) THEN SortedDescending(s)[r] ELSE 0

-----------------------------------------------------------------------------
\* the number of positions of s that hold a value satisfying P
CountOf(s, P(_)) == Cardinality({q \in 1..Len(s) : P(s[q])})

-----------------------------------------------------------------------------
(* compute_minimal_cycle_basis called on its own *)

MaxBuses == 3
MaxBranches == 3

\* the ordered pairs (from_node, to_node) of distinct buses of 1..n
BusPairs(n) == {p \in (1..n) \X (1..n) : p[1] # p[2]}

\* the buses reachable from the buses of `seen` along the branches
RECURSIVE ReachableFrom(_, _)
ReachableFrom(seen, edges) ==
    LET more == {v \in UNION {{edges[j][1], edges[j][2]} : j \in 1..Len(edges)} :
                    \E j \in 1..Len(edges) :
                        \/ edges[j][1] \in seen /\ edges[j][2] = v
                        \/ edges[j][2] \in seen /\ edges[j][1] = v}
    IN  IF more \subseteq seen THEN seen ELSE ReachableFrom(seen \cup more, edges)

IsConnected(n, edges) == ReachableFrom({1}, edges) = 1..n

\* Network._build_branch_incidence_matrix: A_br[from_node, j] = -1, then
\* A_br[to_node, j] = 1
BuildIncidence(n, edges) ==
    [v \in 1..n |-> [j \in 1..Len(edges) |->
        IF edges[j][2] = v THEN 1 ELSE IF edges[j][1] = v THEN -1 ELSE 0]]

\* np.where(incidence_matrix[:, j] == s)[0][0]: the first bus whose entry is s
FirstBusWith(A, j, s) ==
    LET hits == {v \in 1..Len(A) : A[v][j] = s}
    IN  CHOOSE v \in hits : \A u \in hits : v <= u

\* the while loop of compute_fundamental_cycle_basis (lines 165-188): the
\* tree edges, in the order found
RECURSIVE SpanningTreeDfs(_, _, _, _)
SpanningTreeDfs(A, visited, stack, tree_edges) ==
    IF stack = <<>> \/ Len(tree_edges) >= Len(A) - 1 THEN tree_edges
    ELSE LET node == stack[Len(stack)]
             b == Len(A[1])
             in_tree == {tree_edges[q] : q \in 1..Len(tree_edges)}
             other(j) == IF FirstBusWith(A, j, -1) = node
                            /\ FirstBusWith(A, j, 1) \notin visited
                         THEN FirstBusWith(A, j, 1)
                         ELSE IF FirstBusWith(A, j, 1) = node
                                 /\ FirstBusWith(A, j, -1) \notin visited
                              THEN FirstBusWith(A, j, -1)
                              ELSE 0
             found == {j \in 1..b : j \notin in_tree /\ other(j) # 0}
         IN  IF found = {}
             THEN SpanningTreeDfs(A, visited, SubSeq(stack, 1, Len(stack) - 1), tree_edges)
             ELSE LET j == CHOOSE e \in found : \A f \in found : e <= f
                  IN  SpanningTreeDfs(A, visited \cup {other(j)},
                                      Append(stack, other(j)), Append(tree_edges, j))

\* compute_fundamental_cycle_basis: one row per non-tree edge, holding that
\* edge only (the tree path is not added)
compute_fundamental_cycle_basis(A) ==
    LET b == Len(A[1])
        tree_edges == SpanningTreeDfs(A, {1}, <<1>>, <<>>)
        in_tree == {tree_edges[q] : q \in 1..Len(tree_edges)}
        non_tree_edges == SelectSeq([j \in 1..b |-> j], LAMBDA j : j \notin in_tree)
    IN  [kappa \in 1..Len(non_tree_edges) |->
            [j \in 1..b |-> IF j = non_tree_edges[kappa] THEN 1 ELSE 0]]

\* the feasible v of IP (26): the mod-2 sums of sets of rows that hold kappa_hat
Mod2Sums(C, kappa_hat) ==
    { [j \in 1..Len(C[1]) |-> SumSeq([kappa \in 1..Len(C) |->
                                 IF kappa \in W THEN C[kappa][j] ELSE 0]) % 2] :
        W \in {S \in SUBSET (1..Len(C)) : kappa_hat \in S} }

\* solve_shortest_cycle_ip: an optimal v, or None (here the empty vector)
\* when the solver does not end with status OPTIMAL or raises
solve_shortest_cycle_ip(C, kappa_hat) ==
    {v \in Mod2Sums(C, kappa_hat) :
        \A u \in Mod2Sums(C, kappa_hat) : SumSeq(v) <= SumSeq(u)} \cup {<< >>}

\* lines 56-61: the row after the improvement step for v_star
ImproveRow(C, kappa, v_star) ==
    IF v_star # << >> /\ SumSeq(v_star) < SumSeq(C[kappa])
    THEN [C EXCEPT ![kappa] = v_star]
    ELSE C

\* the while loop of assign_cycle_orientations (lines 236-251) for one row:
\* the oriented row, or diverges when no remaining edge touches current_node
\* (the loop then never ends); a set of small ints is iterated in
\* ascending order
RECURSIVE TraverseCycle(_, _, _, _)
TraverseCycle(A, remaining, current_node, D_row) ==
    IF remaining = {} THEN [diverges |-> FALSE, row |-> D_row]
    ELSE LET touching == {j \in remaining :
                             \/ FirstBusWith(A, j, -1) = current_node
                             \/ FirstBusWith(A, j, 1) = current_node}
         IN  IF touching = {} THEN [diverges |-> TRUE, row |-> D_row]
             ELSE LET j == CHOOSE e \in touching : \A f \in touching : e <= f
                  IN  IF FirstBusWith(A, j, -1) = current_node
                      THEN TraverseCycle(A, remaining \ {j}, FirstBusWith(A, j, 1),
                                         [D_row EXCEPT ![j] = 1])
                      ELSE TraverseCycle(A, remaining \ {j}, FirstBusWith(A, j, -1),
                                         [D_row EXCEPT ![j] = -1])

\* lines 218-251: the orientation of one row of C_undirected
OrientRow(A, C_row) ==
    LET cycle_edges == {j \in 1..Len(C_row) : C_row[j] > 0}
        zero_row == [j \in 1..Len(C_row) |-> 0]
    IN  IF cycle_edges = {} THEN [diverges |-> FALSE, row |-> zero_row]
        ELSE LET first_edge == CHOOSE e \in cycle_edges : \A f \in cycle_edges : e <= f
             IN  TraverseCycle(A, cycle_edges \ {first_edge},
                               FirstBusWith(A, first_edge, 1),
                               [zero_row EXCEPT ![first_edge] = 1])

\* assign_cycle_orientations: the matrix D
assign_cycle_orientations(C_undirected, A) ==
    [kappa \in 1..Len(C_undirected) |-> OrientRow(A, C_undirected[kappa]).row]

OrientationDiverges(C_undirected, A) ==
    \E kappa \in 1..Len(C_undirected) : OrientRow(A, C_undirected[kappa]).diverges

\* The incidence matrices of the connected topologies with at most max_n
\* buses and max_b branches
ConnectedIncidenceMatrices(max_n, max_b) ==
    UNION { UNION { { BuildIncidence(n, edges) :
                        edges \in {e \in [1..b -> BusPairs(n)] : IsConnected(n, e)} } :
                    b \in 1..max_b } :
            n \in 2..max_n }

InitCycle ==
    /\ pc = "call"
    /\ network \in Networks
    /\ \E A \in ConnectedIncidenceMatrices(MaxBuses, MaxBranches) :
          call = [ fn               |-> "compute_minimal_cycle_basis",
                   incidence_matrix |-> A,
                   C_undirected     |-> <<>>,
                   kappa            |-> 0,
                   ret              |-> None ]
    /\ NoRun

\* lines 36-48: the initial basis (initial_basis is None)
CycleFundamental ==
    /\ pc = "call"
    /\ call' = [call EXCEPT !.C_undirected =
                    compute_fundamental_cycle_basis(call.incidence_matrix)]
    /\ pc' = "improve"
    /\ UNCHANGED run_vars

\* one pass of the loop of lines 51-61
CycleImprove ==
    /\ pc = "improve"
    /\ call.kappa < Len(call.C_undirected)
    /\ \E v_star \in solve_shortest_cycle_ip(call.C_undirected, call.kappa + 1) :
          call' = [call EXCEPT
                      !.C_undirected = ImproveRow(call.C_undirected, call.kappa + 1, v_star),
                      !.kappa = call.kappa + 1]
    /\ UNCHANGED <<pc, run_vars>>

\* lines 63-66: the orientations are assigned and D is returned
CycleReturn ==
    /\ pc = "improve"
    /\ call.kappa = Len(call.C_undirected)
    /\ ~OrientationDiverges(call.C_undirected, call.incidence_matrix)
    /\ call' = [call EXCEPT !.ret =
                    assign_cycle_orientations(call.C_undirected, call.incidence_matrix)]
    /\ pc' = "call_returned"
    /\ UNCHANGED run_vars

NextCycle ==
    \/ CycleFundamental
    \/ CycleImprove
    \/ CycleReturn

SpecCycle == InitCycle /\ [][NextCycle]_vars

\* no combination of the rows with coefficients of magnitude up to 2, not all
\* zero, vanishes (this decides independence for up to three rows over {-1, 0, 1})
RowsIndependent(D) ==
    \A c \in [1..Len(D) -> -2..2] :
        (\E kappa \in 1..Len(D) : c[kappa] # 0) =>
            \E j \in 1..Len(D[1]) :
                SumSeq([kappa \in 1..Len(D) |-> c[kappa] * D[kappa][j]]) # 0

\* C13: for a connected topology with n buses and b branches the matrix D
\* returned by compute_minimal_cycle_basis has b - n + 1 rows, every row is
\* a closed cycle (D * A^T = 0), the rows are linearly independent and every
\* entry is in {-1, 0, 1}.
C13_CycleBasis ==
    (pc = "call_returned" /\ call.fn = "compute_minimal_cycle_basis") =>
        LET A == call.incidence_matrix
            D == call.ret
            n == Len(A)
            b == Len(A[1])
        IN  /\ Len(D) = b - n + 1
            /\ \A kappa \in 1..Len(D) : \A v \in 1..n :
                  SumSeq([j \in 1..b |-> D[kappa][j] * A[v][j]]) = 0
            /\ Len(D) > 0 => RowsIndependent(D)
            /\ \A kappa \in 1..Len(D) : \A j \in 1..b : D[kappa][j] \in {-1, 0, 1}

-----------------------------------------------------------------------------
(* OperationalSubproblem.solve called on its own *)

\* ScenarioData.c_sh; OperationalParameters.eta, gamma_es, gamma_d as fractions
CSh == 10000
EtaNum == 9
EtaDen == 10
GammaEsNum == 1
GammaEsDen == 2
GammaDNum == 15
GammaDDen == 100

\* the incidence matrices of the trees (b = n - 1), for which the constructor
\* of OperationalSubproblem returns
TreeIncidenceMatrices(max_n) ==
    {A \in ConnectedIncidenceMatrices(max_n, max_n - 1) : Len(A[1]) = Len(A) - 1}

\* values of ScenarioData.c_g, a_g, p_d and of x_em_omega (one period, one
\* generator, one storage device, one load)
SolveCG == {-1, 2}
SolveAG == {0, 1}
SolvePD == {0, 2, 8}
SolveXEm == {0, 3}

\* the generation block (Eq. 3): bounds of the variables, capacity + reserves,
\* ramps, total emissions
GenerationFeasible(c, p_g, r_g) ==
    LET T == Len(c.scenario.c_g)
        G == Len(c.scenario.c_g[1])
        total_capacity == [g \in 1..G |-> c.params.w_g[g] + c.x.x_g[g]]
    IN  /\ \A t \in 1..T : \A g \in 1..G :
              /\ p_g[t][g] >= 0
              /\ r_g[t][g] >= 0
              /\ p_g[t][g] + r_g[t][g] <= c.scenario.a_g[t][g] * total_capacity[g]
              /\ t > 1 => /\ p_g[t][g] - p_g[t-1][g] >= -c.params.R[g] * total_capacity[g]
                          /\ p_g[t][g] - p_g[t-1][g] <= c.params.R[g] * total_capacity[g]
        /\ SumSeq([t \in 1..T |-> SumSeq([g \in 1..G |-> c.params.e[g] * p_g[t][g]])])
               <= c.x_em_omega

\* the storage block (Eq. 4) for a record st of p_es, p_chg, p_dis, r_dis, q
StorageFeasible(c, st) ==
    LET T == Len(c.scenario.c_g)
        S == Len(c.params.w_es_p)
        storage_power_cap == [s \in 1..S |-> c.params.w_es_p[s] + c.x.x_es_p[s]]
        storage_energy_cap == [s \in 1..S |-> c.params.w_es_e[s] + c.x.x_es_e[s]]
    IN  /\ \A t \in 1..T : \A s \in 1..S :
              /\ st.p_chg[t][s] >= 0 /\ st.p_dis[t][s] >= 0
              /\ st.r_dis[t][s] >= 0 /\ st.q[t][s] >= 0
              /\ st.p_es[t][s] = st.p_dis[t][s] - st.p_chg[t][s]
              /\ st.p_chg[t][s] + st.p_dis[t][s] + st.r_dis[t][s] <= storage_power_cap[s]
              /\ st.q[t][s] <= storage_energy_cap[s]
              /\ st.q[t][s] >= st.r_dis[t][s]
              /\ LET q_prev_scaled ==
                         IF t = 1
                         THEN GammaEsNum * storage_energy_cap[s] * EtaNum * EtaDen
                         ELSE GammaEsDen * EtaNum * EtaDen * st.q[t-1][s]
                 IN  GammaEsDen * EtaNum * EtaDen * st.q[t][s]
                         = q_prev_scaled
                           + GammaEsDen * EtaNum * EtaNum * st.p_chg[t][s]
                           - GammaEsDen * EtaDen * EtaDen * st.p_dis[t][s]
        /\ \A s \in 1..S :
              GammaEsDen * st.q[T][s] = GammaEsNum * storage_energy_cap[s]

\* the system reserve (Eq. 5)
ReserveFeasible(c, r_g, r_dis) ==
    \A t \in 1..Len(c.scenario.c_g) :
        GammaDDen * (SumSeq(r_g[t]) + SumSeq(r_dis[t])) >= GammaDNum * SumSeq(c.scenario.p_d[t])

\* _add_power_flow_constraints: the branch capacity limits (Eq. 7), the only
\* constraints the function adds
PowerFlowFeasible(c, p_br) ==
    \A t \in 1..Len(c.scenario.c_g) : \A j \in 1..Len(c.A_br[1]) :
        /\ p_br[t][j] <= c.params.w_br[j] + c.x.x_br[j]
        /\ p_br[t][j] >= -(c.params.w_br[j] + c.x.x_br[j])

\* the objective (Eq. 14) without contingency slacks
SolveObjective(c, y) ==
    LET T == Len(c.scenario.c_g)
    IN  SumSeq([t \in 1..T |-> Dot(c.scenario.c_g[t], y.p_g[t])])
        + SumSeq([t \in 1..T |-> c.scenario.c_sh * SumSeq(y.p_sh[t])])

\* the feasible points of the LP on the integer grid, for one period, one
\* generator, one storage device and one load
FeasiblePrimals(c) ==
    LET b == Len(c.A_br[1])
        capG == c.params.w_g[1] + c.x.x_g[1]
        capS == c.params.w_es_p[1] + c.x.x_es_p[1]
        capE == c.params.w_es_e[1] + c.x.x_es_e[1]
        gens == {gr \in [p_g : 0..capG, r_g : 0..capG] :
                    GenerationFeasible(c, << <<gr.p_g>> >>, << <<gr.r_g>> >>)}
        stos == {st \in [p_es : {<< <<e>> >> : e \in -capS..capS},
                         p_chg : {<< <<e>> >> : e \in 0..capS},
                         p_dis : {<< <<e>> >> : e \in 0..capS},
                         r_dis : {<< <<e>> >> : e \in 0..capS},
                         q : {<< <<e>> >> : e \in 0..capE}] : StorageFeasible(c, st)}
        flows == {<<f>> : f \in {f \in [1..b -> -MaxSeq(c.params.w_br)..MaxSeq(c.params.w_br)] :
                                    PowerFlowFeasible(c, <<f>>)}}
        sheds == {<< <<e>> >> : e \in 0..c.scenario.p_d[1][1]}
    IN  { [p_g |-> << <<gr.p_g>> >>, r_g |-> << <<gr.r_g>> >>,
           p_es |-> st.p_es, p_chg |-> st.p_chg, p_dis |-> st.p_dis,
           r_dis |-> st.r_dis, q |-> st.q, p_br |-> f, p_sh |-> sh] :
             <<gr, st, f, sh>> \in
                 {z \in gens \X stos \X flows \X sheds :
                     ReserveFeasible(c, << <<z[1].r_g>> >>, z[2].r_dis)} }

\* OperationalVariables.zeros
ZeroOperationalVariables(c) ==
    LET b == Len(c.A_br[1])
    IN  [p_g |-> << <<0>> >>, r_g |-> << <<0>> >>, p_es |-> << <<0>> >>,
         p_chg |-> << <<0>> >>, p_dis |-> << <<0>> >>, r_dis |-> << <<0>> >>,
         q |-> << <<0>> >>, p_br |-> << [j \in 1..b |-> 0] >>, p_sh |-> << <<0>> >>]

\* what solve may return: an optimal point with status "optimal", or the
\* zero placeholder when the LP has no feasible point
SolveOutcomes(c) ==
    LET F == FeasiblePrimals(c)
    IN  IF F = {}
        THEN {[status |-> "infeasible", objective_value |-> 0,
               op_vars |-> ZeroOperationalVariables(c)]}
        ELSE LET values == {SolveObjective(c, z) : z \in F}
                 best == CHOOSE m \in values : \A u \in values : m <= u
             IN  {[status |-> "optimal", objective_value |-> best, op_vars |-> y] :
                     y \in {z \in F : SolveObjective(c, z) = best}}

InitSolve ==
    /\ pc = "call"
    /\ network \in {net \in Networks : net.n = 2}
    /\ \E A \in TreeIncidenceMatrices(MaxBuses), cg \in SolveCG, ag \in SolveAG, pd \in SolvePD,
          xem \in SolveXEm :
          /\ call = [ fn         |-> "OperationalSubproblem.solve",
                      A_br       |-> A,
                      params     |-> [ w_g |-> w_g, w_es_p |-> w_es_p, w_es_e |-> <<2>>,
                                       w_br |-> [j \in 1..Len(A[1]) |-> 1],
                                       R |-> <<1>>, e |-> <<1>>,
                                       A_g |-> [v \in 1..Len(A) |-> <<IF v = 1 THEN 1 ELSE 0>>],
                                       A_es |-> [v \in 1..Len(A) |-> <<IF v = 1 THEN 1 ELSE 0>>],
                                       A_d |-> [v \in 1..Len(A) |->
                                                   <<IF v = Len(A) THEN 1 ELSE 0>>] ],
                      scenario   |-> [ c_g |-> << <<cg>> >>, a_g |-> << <<ag>> >>,
                                       p_d |-> << <<pd>> >>, c_sh |-> CSh, c_vio |-> CVio ],
                      x          |-> Zeros(1, 1, Len(A[1]), NumScenarios),
                      x_em_omega |-> xem,
                      ret        |-> None ]
    /\ NoRun

\* lines 136-317: the LP is built and solved, the primal is extracted
SolveReturn ==
    /\ pc = "call"
    /\ call.fn = "OperationalSubproblem.solve"
    /\ \E out \in SolveOutcomes(call) : call' = [call EXCEPT !.ret = out]
    /\ pc' = "call_returned"
    /\ UNCHANGED run_vars

NextSolve == SolveReturn

SpecSolve == InitSolve /\ [][NextSolve]_vars

\* C14: for every solve that ends with status "optimal" the primal satisfies
\* the nodal balance at every bus v and period t:
\* A_g p_g + A_es p_es + A_d (p_sh - p_d) = A p_br (there are no HVDC lines).
C14_NodalBalance ==
    (pc = "call_returned" /\ call.fn = "OperationalSubproblem.solve"
        /\ call.ret.status = "optimal") =>
        LET y == call.ret.op_vars
        IN  \A t \in 1..Len(call.scenario.c_g) : \A v \in 1..Len(call.A_br) :
                Dot(call.params.A_g[v], y.p_g[t]) + Dot(call.params.A_es[v], y.p_es[t])
                + Dot(call.params.A_d[v],
                      [d \in 1..Len(y.p_sh[t]) |-> y.p_sh[t][d] - call.scenario.p_d[t][d]])
                = Dot(call.A_br[v], y.p_br[t])

-----------------------------------------------------------------------------
(* Network(nodes, branches) called on its own *)

\* Branch fields a caller may pass: node indices (0-based as in the source;
\* -1 and n are not bus indices), capacity_mw and impedance
BranchRecords(n) ==
    [from_node : -1..n, to_node : -1..n, capacity_mw : {-1, 2}, impedance : {0, 1}]

\* numpy indexing of axis 0 of an array with n rows: the row (1-based here)
\* an index selects; a negative index counts from the end; 0 when the index
\* is out of bounds (IndexError)
NumpyRow(n, idx) ==
    IF idx >= 0 /\ idx < n THEN idx + 1
    ELSE IF idx < 0 /\ idx >= -n THEN idx + n + 1
    ELSE 0

\* _build_branch_incidence_matrix: -1 is stored at the from row, then 1 at
\* the to row
build_branch_incidence_matrix(n, branches) ==
    [v \in 1..n |-> [j \in 1..Len(branches) |->
        IF NumpyRow(n, branches[j].to_node) = v THEN 1
        ELSE IF NumpyRow(n, branches[j].from_node) = v THEN -1
        ELSE 0]]

IndexInBounds(n, branches) ==
    \A j \in 1..Len(branches) :
        /\ NumpyRow(n, branches[j].from_node) # 0
        /\ NumpyRow(n, branches[j].to_node) # 0

\* get_susceptances(None): 1.0 / impedances as fractions; a denominator 0 is
\* numpy's inf (division by zero only warns)
get_susceptances(branches) ==
    [j \in 1..Len(branches) |-> <<1, branches[j].impedance>>]

InitNetwork ==
    /\ pc = "call"
    /\ network \in Networks
    /\ \E n \in 2..MaxBuses :
          \E slack \in [1..n -> BOOLEAN], br \in BranchRecords(n) :
             call = [ fn       |-> "Network",
                      nodes    |-> [v \in 1..n |-> [is_slack |-> slack[v]]],
                      branches |-> <<br>>,
                      ret      |-> None ]
    /\ NoRun

\* Network.__init__ returns: the dimensions and the incidence matrix are set
NetworkReturn ==
    /\ pc = "call"
    /\ call.fn = "Network"
    /\ IndexInBounds(Len(call.nodes), call.branches)
    /\ call' = [call EXCEPT !.ret =
                    [ n    |-> Len(call.nodes),
                      b    |-> Len(call.branches),
                      A_br |-> build_branch_incidence_matrix(Len(call.nodes), call.branches) ]]
    /\ pc' = "call_returned"
    /\ UNCHANGED run_vars

\* an index out of bounds at line 95 or 96: numpy raises IndexError
NetworkRaise ==
    /\ pc = "call"
    /\ call.fn = "Network"
    /\ ~IndexInBounds(Len(call.nodes), call.branches)
    /\ call' = [call EXCEPT !.ret = [error |-> "IndexError"]]
    /\ pc' = "raised"
    /\ UNCHANGED run_vars

\* get_susceptances() on the constructed network, as the constructor of
\* OperationalSubproblem and the corrector call it
NetworkSusceptances ==
    /\ pc = "call_returned"
    /\ call.fn = "Network"
    /\ call' = [call EXCEPT !.ret =
                    [ n |-> call.ret.n, b |-> call.ret.b, A_br |-> call.ret.A_br,
                      susceptances |-> get_susceptances(call.branches) ]]
    /\ pc' = "susceptances"
    /\ UNCHANGED run_vars

NextNetwork ==
    \/ NetworkReturn
    \/ NetworkRaise
    \/ NetworkSusceptances

SpecNetwork == InitNetwork /\ [][NextNetwork]_vars

\* a topology with an endpoint that is not a bus index, a negative capacity,
\* more than one slack bus or a non-positive impedance
Malformed(c) ==
    \/ \E j \in 1..Len(c.branches) :
          \/ c.branches[j].from_node \notin 0..(Len(c.nodes) - 1)
          \/ c.branches[j].to_node \notin 0..(Len(c.nodes) - 1)
          \/ c.branches[j].capacity_mw < 0
          \/ c.branches[j].impedance <= 0
    \/ Cardinality({v \in 1..Len(c.nodes) : c.nodes[v].is_slack}) > 1

\* C15: building the network from a malformed topology is rejected with an
\* input-invalid error, so the constructor never returns a network for it.
C15_MalformedRejected ==
    (call.fn = "Network" /\ Malformed(call) /\ pc # "call") =>
        (pc = "raised" /\ call.ret.error = "input-invalid")

-----------------------------------------------------------------------------
(* compute_power_transfer_matrices called on its own *)

\* A[1:, :]: the incidence matrix without the row of the slack bus
RemoveSlackRow(A_br) == Tail(A_br)

\* the matrices X with entries in {-1, 0, 1} and X * M = I.  A square reduced
\* incidence matrix is totally unimodular: it is singular, or its inverse has
\* entries in {-1, 0, 1}.
IntegerInverses(M) ==
    LET m == Len(M)
    IN  {X \in [1..m -> [1..m -> {-1, 0, 1}]] :
            \A r \in 1..m : \A q \in 1..m :
                SumSeq([v \in 1..m |-> X[r][v] * M[v][q]]) = IF r = q THEN 1 ELSE 0}

\* np.linalg.inv(A.T @ B @ A) raises LinAlgError: with B diagonal and
\* positive the product is singular exactly when the square A is
SingularReduced(A) == IntegerInverses(A) = {}

\* PTDF = B A (A^T B A)^{-1}, which is (A^T)^{-1} for a square invertible A
PtdfOf(A) ==
    LET inv == CHOOSE X \in IntegerInverses(A) : TRUE
    IN  [i \in 1..Len(A) |-> [v \in 1..Len(A) |-> inv[v][i]]]

\* the LODF loop: numerator / denominator as a fraction when the denominator
\* is not (nearly) zero, else the entry stays 0
LodfOf(PTDF, A) ==
    LET b == Len(A[1])
    IN  [i \in 1..b |-> [j \in 1..b |->
            LET numerator == SumSeq([v \in 1..Len(A) |-> PTDF[i][v] * A[v][j]])
                denominator == 1 - SumSeq([v \in 1..Len(A) |-> PTDF[j][v] * A[v][j]])
            IN  IF i # j /\ denominator # 0 THEN <<numerator, denominator>> ELSE <<0, 1>>]]

\* np.zeros((b, n_minus_1)) and np.zeros((b, b)) of the except clause
SubstitutePtdf(A) == [i \in 1..Len(A[1]) |-> [v \in 1..Len(A) |-> 0]]
SubstituteLodf(A) == [i \in 1..Len(A[1]) |-> [j \in 1..Len(A[1]) |-> <<0, 1>>]]

\* compute_power_transfer_matrices for a network whose shapes conform
compute_power_transfer_matrices(A_br) ==
    LET A == RemoveSlackRow(A_br)
    IN  IF SingularReduced(A)
        THEN [PTDF |-> SubstitutePtdf(A), LODF |-> SubstituteLodf(A)]
        ELSE [PTDF |-> PtdfOf(A), LODF |-> LodfOf(PtdfOf(A), A)]

\* the function of transmission_correction.py and the method of
\* OperationalSubproblem, which compute the same matrices
PtdfFunctions ==
    {"compute_power_transfer_matrices",
     "OperationalSubproblem._compute_power_transfer_matrices"}

InitPtdf ==
    /\ pc = "call"
    /\ network \in Networks
    /\ \E n \in 2..MaxBuses, b \in 1..MaxBranches, f \in PtdfFunctions :
          \E edges \in [1..b -> BusPairs(n)] :
             call = [ fn    |-> f,
                      n     |-> n,
                      edges |-> edges,
                      A_br  |-> BuildIncidence(n, edges),
                      ret   |-> None ]
    /\ NoRun

\* the matrices are returned: computed, or zeros after LinAlgError
PtdfReturn ==
    /\ pc = "call"
    /\ call.fn \in PtdfFunctions
    /\ Len(call.A_br[1]) = call.n - 1
    /\ call' = [call EXCEPT !.ret = compute_power_transfer_matrices(call.A_br)]
    /\ pc' = "call_returned"
    /\ UNCHANGED run_vars

\* b # n - 1: the matrix product raises ValueError, which is not caught
PtdfRaise ==
    /\ pc = "call"
    /\ call.fn \in PtdfFunctions
    /\ Len(call.A_br[1]) # call.n - 1
    /\ call' = [call EXCEPT !.ret = [error |-> "ValueError"]]
    /\ pc' = "raised"
    /\ UNCHANGED run_vars

NextPtdf ==
    \/ PtdfReturn
    \/ PtdfRaise

SpecPtdf == InitPtdf /\ [][NextPtdf]_vars

\* C16: when the graph is disconnected, so that the reduced Laplacian cannot
\* be factored, the computation fails; it never returns PTDF and LODF.
C16_SingularIsFatal ==
    (call.fn \in PtdfFunctions /\ pc # "call" /\ ~IsConnected(call.n, call.edges)) =>
        pc = "raised"

-----------------------------------------------------------------------------
(* Infeasible subproblems in the bundle *)

\* C17: in a bundle iteration in which the subproblem of some scenario is
\* infeasible at x_k, the cost counts as +infinity: U_k is not lowered and
\* x_k does not become the incumbent x_star.
C17_InfeasibleKeepsIncumbent ==
    [][ (/\ pc = "bundle"
         /\ pc' # "raised"
         /\ k' = k + 1
         /\ \E w \in Scenarios : theta_k'[w] = InfeasibleCost)
        => (U_k' = U_k /\ x_star' = x_star) ]_vars

-----------------------------------------------------------------------------
(* BundleMethod._identify_violated_contingencies called on its own *)

\* the primal flows of one period, the LODF matrix (zero diagonal) and the
\* branch additions of x_k the oracle is called with
OracleFlows(net) == {<<f>> : f \in [1..net.b -> FlowValues]}
OracleLodf(net) ==
    {L \in [1..net.b -> [1..net.b -> LodfValues]] : \A i \in 1..net.b : L[i][i] = 0}
OracleAdditions(net) == [1..net.b -> InitialAdditions]

InitOracle ==
    /\ pc = "call"
    /\ network \in Networks
    /\ \E p_br \in OracleFlows(network), lodf \in OracleLodf(network),
          x_br \in OracleAdditions(network), omega \in Scenarios :
          \* a primal of the LP respects the branch capacity limits
          /\ \A j \in 1..network.b :
                Abs(p_br[1][j]) <= network.capacity_mw[j] + x_br[j]
          /\ call = [ fn      |-> "_identify_violated_contingencies",
                      op_vars |-> [p_br |-> p_br],
                      LODF    |-> lodf,
                      x_k     |-> [Zeros(Len(w_g), Len(w_es_p), network.b, NumScenarios)
                                      EXCEPT !.x_br = x_br],
                      omega   |-> omega,
                      ret     |-> None ]
    /\ NoRun

\* lines 262-278: the oracle returns its set of violations
OracleReturn ==
    /\ pc = "call"
    /\ call.fn = "_identify_violated_contingencies"
    /\ call' = [call EXCEPT !.ret =
                    identify_violated_contingencies(call.op_vars, call.x_k, call.omega)]
    /\ pc' = "call_returned"
    /\ UNCHANGED run_vars

NextOracle == OracleReturn

SpecOracle == InitOracle /\ [][NextOracle]_vars

\* the triples (t, i, j), i # j, whose post-outage flow exceeds the
\* post-contingency rating eta_c * (w_br[i] + x_br[i])
ViolatedTriples(net, p_br, lodf, x_br) ==
    {tr \in (1..Len(p_br)) \X (1..net.b) \X (1..net.b) :
        /\ tr[2] # tr[3]
        /\ Abs(p_br[tr[1]][tr[2]] + lodf[tr[2]][tr[3]] * p_br[tr[1]][tr[3]])
              > EtaC * (net.capacity_mw[tr[2]] + x_br[tr[2]])}

\* C18: the oracle returns every triple (t, i, j), i # j, whose post-outage
\* flow |p_br[t,i] + LODF[i,j] p_br[t,j]| exceeds eta_c (w_br[i] + x_br[i]).
C18_OracleComplete ==
    (pc = "call_returned" /\ call.fn = "_identify_violated_contingencies") =>
        ViolatedTriples(network, call.op_vars.p_br, call.LODF, call.x_k.x_br) \subseteq call.ret

-----------------------------------------------------------------------------
(* Network.identify_non_islanding_branches called on its own *)

InitEligible ==
    /\ pc = "call"
    /\ network \in Networks
    /\ \E n \in 2..MaxBuses, b \in 1..MaxBranches :
          \E edges \in {e \in [1..b -> BusPairs(n)] : IsConnected(n, e)} :
             call = [ fn    |-> "identify_non_islanding_branches",
                      n     |-> n,
                      b     |-> b,
                      edges |-> edges,
                      ret   |-> None ]
    /\ NoRun

\* lines 141-152: the list of eligible branches is returned (as a set of
\* 1-based branch numbers)
EligibleReturn ==
    /\ pc = "call"
    /\ call.fn = "identify_non_islanding_branches"
    /\ call' = [call EXCEPT !.ret = identify_non_islanding_branches(call)]
    /\ pc' = "call_returned"
    /\ UNCHANGED run_vars

NextEligible == EligibleReturn

SpecEligible == InitEligible /\ [][NextEligible]_vars

\* the branches without branch j
WithoutBranch(edges, j) ==
    [q \in 1..(Len(edges) - 1) |-> IF q < j THEN edges[q] ELSE edges[q + 1]]

\* branch j is a bridge: its removal disconnects the graph
IsBridge(n, edges, j) == ~IsConnected(n, WithoutBranch(edges, j))

\* C19: the contingency-eligible branches are exactly the non-bridge
\* branches of the topology, so a bridge is never an outaged branch j.
C19_EligibleAreNonBridges ==
    (pc = "call_returned" /\ call.fn = "identify_non_islanding_branches") =>
        call.ret = {j \in 1..call.b : ~IsBridge(call.n, call.edges, j)}

-----------------------------------------------------------------------------
(* Capacity decisions against CapacityLimits *)

\* a decision with number components, as fractions
AsFractions(x) ==
    [ x_g    |-> [i \in 1..Len(x.x_g) |-> <<x.x_g[i], 1>>],
      x_es_p |-> [i \in 1..Len(x.x_es_p) |-> <<x.x_es_p[i], 1>>],
      x_es_e |-> [i \in 1..Len(x.x_es_e) |-> <<x.x_es_e[i], 1>>],
      x_br   |-> [i \in 1..Len(x.x_br) |-> <<x.x_br[i], 1>>],
      x_em   |-> [i \in 1..Len(x.x_em) |-> <<x.x_em[i], 1>>] ]

\* the sum of a sequence of fractions
RECURSIVE SumFractions(_)
SumFractions(s) ==
    IF s = <<>> THEN <<0, 1>>
    ELSE LET rest == SumFractions(Tail(s))
         IN  <<Head(s)[1] * rest[2] + rest[1] * Head(s)[2], Head(s)[2] * rest[2]>>

\* 0 <= v[i] for every component, and v[i] <= bound[i] where a bound is given
ComponentsWithin(v, bound) ==
    \A i \in 1..Len(v) :
        /\ v[i][1] >= 0
        /\ i \in DOMAIN bound => v[i][1] <= bound[i] * v[i][2]

\* x (with fraction components) is in the region X of the limits
DecisionWithinLimits(x, limits) ==
    /\ ComponentsWithin(x.x_g, limits.x_g_max)
    /\ ComponentsWithin(x.x_es_p, limits.x_es_p_max)
    /\ ComponentsWithin(x.x_es_e, limits.x_es_e_max)
    /\ ComponentsWithin(x.x_br, limits.x_br_max)
    /\ \A i \in 1..Len(x.x_em) : x.x_em[i][1] >= 0
    /\ SumFractions(x.x_em)[1] * limits.x_em_max[2]
          <= limits.x_em_max[1] * SumFractions(x.x_em)[2]

\* C20: every capacity decision produced as a bundle iterate, as the output
\* of the corrector or in a result is componentwise >= 0 and <= the upper
\* bounds of the capacity limits, and its emissions sum to at most x_em_max.
C20_DecisionsWithinLimits ==
    /\ x_k # None => DecisionWithinLimits(AsFractions(x_k), capacity_limits)
    /\ corr.ret # None =>
          ComponentsWithin([i \in 1..Len(corr.ret.x_br) |-> <<corr.ret.x_br[i], 1>>],
                           capacity_limits.x_br_max)
    /\ result # None =>
          DecisionWithinLimits(
              IF simplified THEN result.capacity_decision
              ELSE AsFractions(result.capacity_decision),
              capacity_limits)

-----------------------------------------------------------------------------
(* The incumbent returned by BundleMethod.solve *)

\* C23: when BundleMethod.solve returns after at least one iteration, x_star
\* is not None, it is an iterate x_j that was evaluated with f_j equal to the
\* returned U, and U is the minimum of all f_k seen.
C23_IncumbentIsBestIterate ==
    (pc = "bundle_exit" /\ Len(iterations) >= 1) =>
        /\ x_star # None
        /\ \E j \in 1..Len(iterations) :
              /\ iterations[j].x_k = x_star
              /\ iterations[j].f_k = U_k
        /\ \A j \in 1..Len(iterations) : U_k <= iterations[j].f_k

\* C23 case: solve returned after two iterations, the second one worse than
\* the first
C23_Witness ==
    /\ pc = "bundle_exit"
    /\ Len(iterations) = 2
    /\ iterations[2].f_k > iterations[1].f_k
    /\ U_k = iterations[1].f_k

-----------------------------------------------------------------------------
(* The bounds reported in progress events *)

-----------------------------------------------------------------------------
(* assign_cycle_orientations called on its own, pass by pass *)

\* the 0/1 membership matrices with one or two rows over b branches
MembershipMatrices(b) ==
    UNION { [1..n_c -> [1..b -> {0, 1}]] : n_c \in 1..2 }

InitOrient ==
    /\ pc = "call"
    /\ network \in {net \in Networks : net.n = 2}
    /\ \E A \in ConnectedIncidenceMatrices(MaxBuses, MaxBranches) :
          \E C \in MembershipMatrices(Len(A[1])) :
             call = [ fn               |-> "assign_cycle_orientations",
                      incidence_matrix |-> A,
                      C_undirected     |-> C,
                      D                |-> [kappa \in 1..Len(C) |-> [j \in 1..Len(A[1]) |-> 0]],
                      kappa            |-> 0,
                      current_node     |-> 0,
                      remaining        |-> {},
                      ret              |-> None ]
    /\ NoRun

\* lines 225-234 for the next row: its first edge is oriented forward and
\* the other edges of the row become `remaining`
OrientRowStart ==
    /\ pc \in {"call", "orient_rows"}
    /\ call.fn = "assign_cycle_orientations"
    /\ call.kappa < Len(call.C_undirected)
    /\ LET kappa == call.kappa + 1
           cycle_edges == {j \in 1..Len(call.C_undirected[kappa]) :
                              call.C_undirected[kappa][j] > 0}
       IN  IF cycle_edges = {}
           THEN /\ call' = [call EXCEPT !.kappa = kappa]
                /\ pc' = "orient_rows"
           ELSE LET first_edge == CHOOSE e \in cycle_edges : \A f \in cycle_edges : e <= f
                IN  /\ call' = [call EXCEPT
                                   !.D[kappa][first_edge] = 1,
                                   !.current_node =
                                       FirstBusWith(call.incidence_matrix, first_edge, 1),
                                   !.remaining = cycle_edges \ {first_edge},
                                   !.kappa = IF cycle_edges = {first_edge}
                                             THEN kappa ELSE call.kappa]
                    /\ pc' = IF cycle_edges = {first_edge}
                             THEN "orient_rows" ELSE "orient_while"
    /\ UNCHANGED run_vars

\* one pass of `while remaining:` (lines 236-251): the for loop orients an
\* edge that touches current_node and breaks; when no remaining edge touches
\* current_node the for loop ends without a change and the while loop goes on
OrientWhilePass ==
    /\ pc = "orient_while"
    /\ call.remaining # {}
    /\ LET A == call.incidence_matrix
           kappa == call.kappa + 1
           touching == {j \in call.remaining :
                           \/ FirstBusWith(A, j, -1) = call.current_node
                           \/ FirstBusWith(A, j, 1) = call.current_node}
       IN  IF touching = {}
           THEN UNCHANGED <<call, pc>>
           ELSE \E j \in touching :
                   /\ call' = [call EXCEPT
                                  !.D[kappa][j] =
                                      IF FirstBusWith(A, j, -1) = call.current_node
                                      THEN 1 ELSE -1,
                                  !.current_node =
                                      IF FirstBusWith(A, j, -1) = call.current_node
                                      THEN FirstBusWith(A, j, 1)
                                      ELSE FirstBusWith(A, j, -1),
                                  !.remaining = call.remaining \ {j},
                                  !.kappa = IF call.remaining = {j}
                                            THEN kappa ELSE call.kappa]
                   /\ pc' = IF call.remaining = {j} THEN "orient_rows" ELSE "orient_while"
    /\ UNCHANGED run_vars

\* line 253: return D
OrientReturn ==
    /\ pc \in {"call", "orient_rows"}
    /\ call.fn = "assign_cycle_orientations"
    /\ call.kappa = Len(call.C_undirected)
    /\ call' = [call EXCEPT !.ret = [D |-> call.D]]
    /\ pc' = "call_returned"
    /\ UNCHANGED run_vars

NextOrient ==
    \/ OrientRowStart
    \/ OrientWhilePass
    \/ OrientReturn

\* the interpreter keeps running the function
SpecOrient == InitOrient /\ [][NextOrient]_vars /\ WF_vars(NextOrient)

\* C25: assign_cycle_orientations terminates for every 0/1 membership matrix
\* it is given: every call returns.
C25_OrientationTerminates == <>(pc = "call_returned")

-----------------------------------------------------------------------------
(* The slack bus in the power transfer matrices *)

\* the matrix without its row r (rows counted from 1)
WithoutRow(A_br, r) == [i \in 1..(Len(A_br) - 1) |-> IF i < r THEN A_br[i] ELSE A_br[i + 1]]

\* the position in the bus list of the node with is_slack = True
SlackPosition(is_slack) == CHOOSE i \in 1..Len(is_slack) : is_slack[i]

\* a network with exactly one node marked slack, at any position
InitSlack ==
    /\ pc = "call"
    /\ network \in Networks
    /\ \E n \in 2..MaxBuses, b \in 1..MaxBranches, f \in PtdfFunctions :
          \E edges \in [1..b -> BusPairs(n)], slack \in 1..n :
             call = [ fn        |-> f,
                      n         |-> n,
                      edges     |-> edges,
                      is_slack  |-> [i \in 1..n |-> i = slack],
                      A_br      |-> BuildIncidence(n, edges),
                      A_reduced |-> << >>,
                      ret       |-> None ]
    /\ NoRun

\* A_reduced = A[1:, :], then the matrices: computed, or zeros after
\* LinAlgError; is_slack is not read
SlackReturn ==
    /\ pc = "call"
    /\ call.fn \in PtdfFunctions
    /\ Len(call.A_br[1]) = call.n - 1
    /\ call' = [call EXCEPT !.A_reduced = RemoveSlackRow(call.A_br),
                            !.ret = compute_power_transfer_matrices(call.A_br)]
    /\ pc' = "call_returned"
    /\ UNCHANGED run_vars

\* b # n - 1: A[1:, :] is taken, then the matrix product raises ValueError
SlackRaise ==
    /\ pc = "call"
    /\ call.fn \in PtdfFunctions
    /\ Len(call.A_br[1]) # call.n - 1
    /\ call' = [call EXCEPT !.A_reduced = RemoveSlackRow(call.A_br),
                            !.ret = [error |-> "ValueError"]]
    /\ pc' = "raised"
    /\ UNCHANGED run_vars

NextSlack ==
    \/ SlackReturn
    \/ SlackRaise

SpecSlack == InitSlack /\ [][NextSlack]_vars

\* C29: when PTDF and LODF have been computed, the reduced incidence matrix
\* they were computed from is the incidence matrix without the row of the
\* bus marked slack, wherever that bus stands in the bus list.
C29_SlackRowDropped ==
    (call.fn \in PtdfFunctions /\ pc = "call_returned") =>
        call.A_reduced = WithoutRow(call.A_br, SlackPosition(call.is_slack))

-----------------------------------------------------------------------------
(* run_optimization called again and again on one service *)

\* the runs one service instance serves
MaxRuns == 3

\* carbon_target of the requests: 0, the default 0.8, and 1
RunTargets == CarbonTargets \cup { <<1, 1>> }

\* the service of OptimizationTask after load_data: nothing has run yet
InitRuns ==
    /\ pc = "call"
    /\ network \in Networks
    /\ call = [ fn       |-> "run_optimization",
                requests |-> << >>,
                ret      |-> None ]
    /\ NoRun

\* run_optimization(request, simplified=True) on the same instance: the data
\* are loaded already, _apply_request_parameters, then the simplified run
RunAgain ==
    /\ pc = "call"
    /\ call.fn = "run_optimization"
    /\ Len(call.requests) < MaxRuns
    /\ \E carbon_target \in RunTargets :
          /\ capacity_limits' = apply_request_parameters(capacity_limits, carbon_target)
          /\ call' = [call EXCEPT !.requests = Append(@, carbon_target),
                                  !.ret = SimplifiedResult(SimplifiedCapacityDecision(network))]
    /\ result' = SimplifiedResult(SimplifiedCapacityDecision(network))
    /\ phase_log' = Append(phase_log, "simplified")
    /\ UNCHANGED <<pc, input_vars, bundle_vars, corr, events, jobs_db_status>>

NextRuns ==
    \/ RunAgain

SpecRuns == InitRuns /\ [][NextRuns]_vars

\* two fractions <<numerator, denominator>> with the same value
SameFraction(p, q) == p[1] * q[2] = q[1] * p[2]

\* C28: after any number of runs with the same request on one service, the
\* emissions limit is the loaded limit times carbon_target.
C28_SameLimitEveryRun ==
    (/\ call.fn = "run_optimization"
     /\ Len(call.requests) >= 1
     /\ \A i \in 1..Len(call.requests) : call.requests[i] = call.requests[1]) =>
        SameFraction(capacity_limits.x_em_max,
                     <<XEmMaxLoaded * call.requests[1][1], call.requests[1][2]>>)

-----------------------------------------------------------------------------
(* The projects API: projects_db and its handlers *)

\* the projects one behaviour creates
MaxProjects == 3

\* ProjectCreate bodies: name and capacity_mw (the other fields are carried
\* along in the same way)
ProjectData ==
    { [name |-> "Test Solar Farm", capacity_mw |-> 100],
      [name |-> "Updated Solar Farm", capacity_mw |-> 150] }

\* uuid4(): an id that no earlier call has returned
uuid4(issued) == (1..MaxProjects) \ issued

\* projects_db[new_project.id] = new_project
store_project(db, id, project) ==
    [i \in DOMAIN db \cup {id} |-> IF i = id THEN project ELSE db[i]]

\* an inert alternative of del: the entry stays
delete_project_keep(db, id) == db

\* del projects_db[project_id]
delete_project(db, id) == [i \in DOMAIN db \ {id} |-> db[i]]

\* HTTPException(status_code=404, detail="Project not found")
ProjectNotFound == [detail |-> "Project not found"]

\* the module after import: projects_db = {}; issued and deleted record the
\* ids handed out by uuid4 and the ids removed by delete_project
InitProjects ==
    /\ pc = "call"
    /\ network \in Networks
    /\ call = [ fn          |-> "projects",
                projects_db |-> << >>,
                issued      |-> {},
                deleted     |-> {},
                response    |-> None,
                ret         |-> None ]
    /\ NoRun

\* POST /: create_project, lines 59-64
CreateProject ==
    /\ pc = "call"
    /\ call.fn = "projects"
    /\ \E project \in ProjectData : \E id \in uuid4(call.issued) :
          call' = [call EXCEPT
                     !.projects_db = store_project(@, id, project),
                     !.issued = @ \cup {id},
                     !.response = [op |-> "create", id |-> id, status_code |-> 201,
                                   body |-> project]]
    /\ UNCHANGED <<pc, run_vars>>

\* GET /: list_projects without filters, lines 67-84
ListProjects ==
    /\ pc = "call"
    /\ call.fn = "projects"
    /\ call' = [call EXCEPT
                  !.response = [op |-> "list", id |-> 0, status_code |-> 200,
                                body |-> [items |-> {call.projects_db[i] :
                                                        i \in DOMAIN call.projects_db}]]]
    /\ UNCHANGED <<pc, run_vars>>

\* GET /{project_id}: get_project, lines 87-92
GetProject ==
    /\ pc = "call"
    /\ call.fn = "projects"
    /\ \E id \in 1..MaxProjects :
          call' = [call EXCEPT
                     !.response =
                        IF id \notin DOMAIN call.projects_db
                        THEN [op |-> "get", id |-> id, status_code |-> 404,
                              body |-> ProjectNotFound]
                        ELSE [op |-> "get", id |-> id, status_code |-> 200,
                              body |-> call.projects_db[id]]]
    /\ UNCHANGED <<pc, run_vars>>

\* PUT /{project_id}: update_project, lines 95-104
UpdateProject ==
    /\ pc = "call"
    /\ call.fn = "projects"
    /\ \E id \in 1..MaxProjects, project \in ProjectData :
          IF id \notin DOMAIN call.projects_db
          THEN call' = [call EXCEPT
                          !.response = [op |-> "update", id |-> id, status_code |-> 404,
                                        body |-> ProjectNotFound]]
          ELSE call' = [call EXCEPT
                          !.projects_db = store_project(@, id, project),
                          !.response = [op |-> "update", id |-> id, status_code |-> 200,
                                        body |-> project]]
    /\ UNCHANGED <<pc, run_vars>>

\* DELETE /{project_id}: delete_project, lines 107-113
DeleteProject ==
    /\ pc = "call"
    /\ call.fn = "projects"
    /\ \E id \in 1..MaxProjects :
          IF id \notin DOMAIN call.projects_db
          THEN call' = [call EXCEPT
                          !.response = [op |-> "delete", id |-> id, status_code |-> 404,
                                        body |-> ProjectNotFound]]
          ELSE call' = [call EXCEPT
                          !.projects_db = delete_project(@, id),
                          !.deleted = @ \cup {id},
                          !.response = [op |-> "delete", id |-> id, status_code |-> 204,
                                        body |-> None]]
    /\ UNCHANGED <<pc, run_vars>>

\* GET /{project_id}/optimization-impact, lines 116-153:
\* recommended_capacity_mw = capacity_mw * 1.2
GetOptimizationImpact ==
    /\ pc = "call"
    /\ call.fn = "projects"
    /\ \E id \in 1..MaxProjects :
          call' = [call EXCEPT
                     !.response =
                        IF id \notin DOMAIN call.projects_db
                        THEN [op |-> "impact", id |-> id, status_code |-> 404,
                              body |-> ProjectNotFound]
                        ELSE [op |-> "impact", id |-> id, status_code |-> 200,
                              body |-> [recommended_capacity_mw |->
                                          <<call.projects_db[id].capacity_mw * 6, 5>>]]]
    /\ UNCHANGED <<pc, run_vars>>

NextProjects ==
    \/ CreateProject
    \/ ListProjects
    \/ GetProject
    \/ UpdateProject
    \/ DeleteProject
    \/ GetOptimizationImpact

SpecProjects == InitProjects /\ [][NextProjects]_vars

\* a get of a deleted project answers 404, and a deleted project is not stored
DeletedStaysGone ==
    call.fn = "projects" =>
        /\ call.deleted \cap DOMAIN call.projects_db = {}
        /\ (/\ call.response # None
            /\ call.response.op = "get"
            /\ call.response.id \in call.deleted) => call.response.status_code = 404

\* a successful delete of one id leaves every other stored project as it was
DeleteKeepsOthers ==
    (/\ call.fn = "projects"
     /\ call'.response # None
     /\ call'.response.op = "delete"
     /\ call'.response.status_code = 204
     /\ call' # call) =>
        /\ DOMAIN call'.projects_db = DOMAIN call.projects_db \ {call'.response.id}
        /\ \A i \in DOMAIN call'.projects_db : call'.projects_db[i] = call.projects_db[i]

\* C22: once a project has been created and deleted, every later get of its id
\* answers 404, whatever is done to other projects in between, and the delete
\* leaves all other stored projects unchanged.
C22_DeletedProjectStaysDeleted == [](DeletedStaysGone) /\ [][DeleteKeepsOthers]_vars

\* a project was deleted, another is still stored as it was created, and a
\* get of the deleted id has just answered 404
C22_Witness ==
    /\ call.fn = "projects"
    /\ call.response # None
    /\ call.response.op = "get"
    /\ call.response.id \in call.deleted
    /\ call.response.status_code = 404
    /\ DOMAIN call.projects_db # {}
    /\ Cardinality(call.issued) = MaxProjects

-----------------------------------------------------------------------------
(* The optimization job API (jobs_db) and the worker task (job_store) *)

\* job ids: uuid4 values of POST /run
JobIds == {"job-1", "job-2"}

\* the statuses with which a job is over
TerminalStatuses == {"completed", "failed", "cancelled"}

\* str(e) of the exceptions caught in the task: KeyError('planning_horizon'),
\* and an exception raised without arguments, such as MemoryError()
ErrorMessages == {"'planning_horizon'", ""}

\* progress of a simulate-progress request: 0.5 and 1.0
SimulatedProgress == { <<1, 2>>, <<1, 1>> }

\* the callbacks of one simplified run: range(1, 6)
SimplifiedCallbacks == 5

\* result.to_dict(): carbon_intensity is 45.0 (as tenths)
WorkerResultDict == [carbon_intensity |-> 450, iterations |-> SimplifiedCallbacks]

\* the fallback results of get_optimization_results: carbon_intensity=42.5
MockResults == [carbon_intensity |-> 425, iterations |-> 0]

\* `if results:` / `if error:` of update_job_status
ResultsTruthy(results) == results # None
ErrorTruthy(error) == error # None /\ error.msg # ""

\* update_job_status, lines 165-212
update_job_status(store, job_id, status, progress, iteration, results, error) ==
    LET old == IF job_id \in DOMAIN store
               THEN store[job_id]
               ELSE [status |-> status, progress |-> progress,
                     current_iteration |-> iteration,
                     results |-> None, error |-> None]
        entry == [old EXCEPT !.status = status,
                             !.progress = progress,
                             !.current_iteration = iteration,
                             !.results = IF ResultsTruthy(results) THEN results ELSE @,
                             !.error = IF ErrorTruthy(error) THEN error ELSE @]
    IN  [i \in DOMAIN store \cup {job_id} |-> IF i = job_id THEN entry ELSE store[i]]

\* get_job_status: job_store.get(job_id)
get_job_status(store, job_id) == IF job_id \in DOMAIN store THEN store[job_id] ELSE None

\* get_job_results, lines 228-241
get_job_results(store, job_id) ==
    IF job_id \in DOMAIN store /\ store[job_id].status = "completed"
    THEN store[job_id].results
    ELSE None

\* an alternative of the test of line 229 that also lets running jobs through
ResultsAvailableWhileRunning(job) == job.status \in {"completed", "running"}

\* line 229: job["status"] != OptimizationStatus.COMPLETED raises 400
ResultsAvailable(job) == job.status = "completed"

\* HTTPException(status_code=404, detail="Job not found")
JobNotFound == [detail |-> "Job not found"]

\* both modules after import: jobs_db = {} and job_store = {}; tasks are the
\* Celery tasks submitted by POST /run
InitJobs ==
    /\ pc = "call"
    /\ network \in {net \in Networks : net.n = 2}
    /\ call = [ fn        |-> "jobs",
                jobs_db   |-> << >>,
                job_store |-> << >>,
                tasks     |-> << >>,
                response  |-> None,
                ret       |-> None ]
    /\ NoRun

\* POST /run: run_optimization, lines 116-172.  The task is queued, or
\* queueing fails and the exception is swallowed.
JobRun ==
    /\ pc = "call"
    /\ call.fn = "jobs"
    /\ \E job_id \in JobIds \ DOMAIN call.jobs_db, queued \in BOOLEAN :
          call' = [call EXCEPT
                     !.jobs_db = [i \in DOMAIN @ \cup {job_id} |->
                                    IF i = job_id
                                    THEN [status |-> "queued", progress |-> <<0, 1>>,
                                          current_iteration |-> 0]
                                    ELSE @[i]],
                     !.tasks = IF queued
                               THEN [i \in DOMAIN @ \cup {job_id} |->
                                       IF i = job_id
                                       THEN [state |-> "queued", returned |-> None]
                                       ELSE @[i]]
                               ELSE @,
                     !.response = [op |-> "run", id |-> job_id, status_code |-> 202,
                                   body |-> [status |-> "queued"]]]
    /\ UNCHANGED <<pc, run_vars>>

\* GET /status/{job_id}: get_optimization_status, lines 174-220
JobStatus ==
    /\ pc = "call"
    /\ call.fn = "jobs"
    /\ \E job_id \in JobIds :
          IF job_id \notin DOMAIN call.jobs_db
          THEN call' = [call EXCEPT
                          !.response = [op |-> "status", id |-> job_id,
                                        status_code |-> 404, body |-> JobNotFound]]
          ELSE LET worker_status == get_job_status(call.job_store, job_id)
                   job == IF worker_status # None
                          THEN [status |-> worker_status.status,
                                progress |-> worker_status.progress,
                                current_iteration |-> worker_status.current_iteration]
                          ELSE call.jobs_db[job_id]
               IN  call' = [call EXCEPT
                              !.jobs_db[job_id] = job,
                              !.response = [op |-> "status", id |-> job_id,
                                            status_code |-> 200, body |-> job]]
    /\ UNCHANGED <<pc, run_vars>>

\* the answer of get_optimization_results, lines 223-305, in the stores of c
get_optimization_results(c, job_id) ==
    IF job_id \notin DOMAIN c.jobs_db
    THEN [op |-> "results", id |-> job_id, status_code |-> 404, body |-> JobNotFound]
    ELSE IF ~ResultsAvailable(c.jobs_db[job_id])
    THEN [op |-> "results", id |-> job_id, status_code |-> 400,
          body |-> [detail |-> "Job is not completed"]]
    ELSE LET worker_results == get_job_results(c.job_store, job_id)
         IN  [op |-> "results", id |-> job_id, status_code |-> 200,
              body |-> [status |-> c.jobs_db[job_id].status,
                        results |-> IF worker_results # None
                                    THEN worker_results
                                    ELSE MockResults]]

\* GET /results/{job_id}: nothing is written
JobResults ==
    /\ pc = "call"
    /\ call.fn = "jobs"
    /\ \E job_id \in JobIds :
          call' = [call EXCEPT !.response = get_optimization_results(call, job_id)]
    /\ UNCHANGED <<pc, run_vars>>

\* POST /{job_id}/cancel: cancel_optimization, lines 308-328; the task is
\* not revoked
JobCancel ==
    /\ pc = "call"
    /\ call.fn = "jobs"
    /\ \E job_id \in JobIds :
          IF job_id \notin DOMAIN call.jobs_db
          THEN call' = [call EXCEPT
                          !.response = [op |-> "cancel", id |-> job_id,
                                        status_code |-> 404, body |-> JobNotFound]]
          ELSE IF call.jobs_db[job_id].status \in {"completed", "failed"}
          THEN call' = [call EXCEPT
                          !.response = [op |-> "cancel", id |-> job_id,
                                        status_code |-> 400,
                                        body |-> [detail |-> "Cannot cancel job"]]]
          ELSE call' = [call EXCEPT
                          !.jobs_db[job_id].status = "cancelled",
                          !.response = [op |-> "cancel", id |-> job_id,
                                        status_code |-> 200,
                                        body |-> [message |-> "Job cancelled successfully"]]]
    /\ UNCHANGED <<pc, run_vars>>

\* POST /_test/simulate-progress/{job_id}: simulate_progress, lines 332-346
JobSimulateProgress ==
    /\ pc = "call"
    /\ call.fn = "jobs"
    /\ \E job_id \in JobIds, progress \in SimulatedProgress :
          IF job_id \notin DOMAIN call.jobs_db
          THEN call' = [call EXCEPT
                          !.response = [op |-> "simulate", id |-> job_id,
                                        status_code |-> 404, body |-> JobNotFound]]
          ELSE call' = [call EXCEPT
                          !.jobs_db[job_id] =
                             [status |-> IF progress[1] < progress[2]
                                         THEN "running" ELSE "completed",
                              progress |-> progress,
                              current_iteration |-> 1],
                          !.response = [op |-> "simulate", id |-> job_id,
                                        status_code |-> 200,
                                        body |-> [message |-> "Progress updated"]]]
    /\ UNCHANGED <<pc, run_vars>>

\* run_canopi_optimization, line 79: update_job_status(job_id, 'running', 0.0, 0)
WorkerStart ==
    /\ pc = "call"
    /\ call.fn = "jobs"
    /\ \E job_id \in DOMAIN call.tasks :
          /\ call.tasks[job_id].state = "queued"
          /\ call' = [call EXCEPT
                        !.job_store = update_job_status(@, job_id, "running", <<0, 1>>, 0,
                                                        None, None),
                        !.tasks[job_id].state = "running"]
    /\ UNCHANGED <<pc, run_vars>>

\* progress_callback, lines 95-113, called by the simplified run for
\* i = 1..5 with progress i / 5
WorkerProgress ==
    /\ pc = "call"
    /\ call.fn = "jobs"
    /\ \E job_id \in DOMAIN call.tasks :
          /\ call.tasks[job_id].state = "running"
          /\ call.job_store[job_id].current_iteration < SimplifiedCallbacks
          /\ LET i == call.job_store[job_id].current_iteration + 1
             IN  call' = [call EXCEPT
                            !.job_store = update_job_status(@, job_id, "running",
                                                            <<i, SimplifiedCallbacks>>, i,
                                                            None, None)]
    /\ UNCHANGED <<pc, run_vars>>

\* lines 116-143: the run returns, the results are stored, the task returns
WorkerComplete ==
    /\ pc = "call"
    /\ call.fn = "jobs"
    /\ \E job_id \in DOMAIN call.tasks :
          /\ call.tasks[job_id].state = "running"
          /\ call.job_store[job_id].current_iteration = SimplifiedCallbacks
          /\ call' = [call EXCEPT
                        !.job_store = update_job_status(@, job_id, "completed", <<1, 1>>,
                                                        WorkerResultDict.iterations,
                                                        WorkerResultDict, None),
                        !.tasks[job_id] = [state |-> "returned",
                                           returned |-> [status |-> "completed",
                                                         results |-> WorkerResultDict]]]
    /\ UNCHANGED <<pc, run_vars>>

\* lines 145-162: an Exception raised anywhere after line 79 is caught
WorkerFail ==
    /\ pc = "call"
    /\ call.fn = "jobs"
    /\ \E job_id \in DOMAIN call.tasks, error_msg \in ErrorMessages :
          /\ call.tasks[job_id].state = "running"
          /\ call' = [call EXCEPT
                        !.job_store = update_job_status(@, job_id, "failed", <<0, 1>>, 0,
                                                        None, [msg |-> error_msg]),
                        !.tasks[job_id] = [state |-> "returned",
                                           returned |-> [status |-> "failed",
                                                         error |-> error_msg]]]
    /\ UNCHANGED <<pc, run_vars>>

NextJobs ==
    \/ JobRun
    \/ JobStatus
    \/ JobResults
    \/ JobCancel
    \/ JobSimulateProgress
    \/ WorkerStart
    \/ WorkerProgress
    \/ WorkerComplete
    \/ WorkerFail

SpecJobs == InitJobs /\ [][NextJobs]_vars

-----------------------------------------------------------------------------
(* Error responses of the job API *)

\* what a results, status or cancel request has just answered, against the
\* job it names
ErrorResponsesRight ==
    (call.fn = "jobs" /\ call.response # None) =>
        LET r == call.response
            known == r.id \in DOMAIN call.jobs_db
        IN  /\ (r.op \in {"results", "status", "cancel"} /\ ~known) => r.status_code = 404
            /\ (r.op = "results" /\ known) =>
                  IF call.jobs_db[r.id].status = "completed"
                  THEN r.status_code = 200 /\ r.body.results # None
                  ELSE r.status_code = 400
            /\ (r.op = "results" /\ r.status_code = 200) =>
                  known /\ call.jobs_db[r.id].status = "completed"

\* a request answered with 400 or 404 changes neither jobs_db nor job_store
ErrorLeavesStores ==
    (/\ call.fn = "jobs"
     /\ call'.response # call.response
     /\ call'.response.status_code \in {400, 404}) =>
        /\ call'.jobs_db = call.jobs_db
        /\ call'.job_store = call.job_store

\* C21: GET results hands out results only for a job whose status is
\* completed and answers 400 for a known job in any other status; status,
\* results and cancel answer 404 for an unknown job id; a request answered
\* with an error leaves the job store unchanged.
C21_ErrorResponses == [](ErrorResponsesRight) /\ [][ErrorLeavesStores]_vars

\* results were just refused with 400 for a known job that is running in the
\* worker, while another job is completed
C21_Witness ==
    /\ call.fn = "jobs"
    /\ call.response # None
    /\ call.response.op = "results"
    /\ call.response.status_code = 400
    /\ call.response.id \in DOMAIN call.jobs_db
    /\ call.jobs_db[call.response.id].status = "running"
    /\ \E other \in DOMAIN call.jobs_db : call.jobs_db[other].status = "completed"

-----------------------------------------------------------------------------
(* Statuses of finished jobs; results after completion; the end of the task *)

\* C26: a job whose status in jobs_db is completed, failed or cancelled keeps
\* that status in every later step, whichever request or worker update it is.
C26_TerminalStatusesAbsorbing ==
    [][ call.fn = "jobs" =>
          \A job_id \in DOMAIN call.jobs_db :
             call.jobs_db[job_id].status \in TerminalStatuses =>
                call'.jobs_db[job_id].status = call.jobs_db[job_id].status ]_vars

\* C27: for a job that the worker has recorded as completed with results, a
\* GET results request is answered 200 with those results, whatever requests
\* came before it.
C27_ResultsAfterWorkerCompleted ==
    call.fn = "jobs" =>
        \A job_id \in JobIds :
           get_job_results(call.job_store, job_id) # None =>
              /\ get_optimization_results(call, job_id).status_code = 200
              /\ get_optimization_results(call, job_id).body.results =
                    get_job_results(call.job_store, job_id)

\* C30: a task that has started has recorded its job as running or further;
\* a task that has returned left the job completed with results stored or
\* failed with the error message stored, the status being the one of the
\* returned dictionary.
C30_TaskEndsRecorded ==
    call.fn = "jobs" =>
        \A job_id \in DOMAIN call.tasks :
           LET task == call.tasks[job_id]
           IN  /\ task.state # "queued" => job_id \in DOMAIN call.job_store
               /\ task.state = "returned" =>
                     LET job == call.job_store[job_id]
                     IN  /\ job.status = task.returned.status
                         /\ job.status \in {"completed", "failed"}
                         /\ job.status = "completed" => job.results = task.returned.results
                         /\ job.status = "failed" =>
                               (job.error # None /\ job.error.msg = task.returned.error)

-----------------------------------------------------------------------------
=============================================================================
